---- MODULE Spec2Model ----
(***************************************************************************)
(* Tower War (ndeshi06/tower-war): the simulation core.                    *)
(*                                                                         *)
(* Towers (src/models/tower.py), troops (src/models/troop.py), the AI      *)
(* controller (src/controllers/ai_controller.py), the level manager        *)
(* (src/controllers/level_manager.py) and the game controller              *)
(* (src/controllers/game_controller.py) as one state machine.              *)
(*                                                                         *)
(* Geometry.  Every distance in the source is Euclidean.  The model puts   *)
(* all towers on one horizontal line, so each distance is |x1 - x2| and    *)
(* stays an integer number of pixels; frame times are multiples of 200 ms, *)
(* for which a Player troop advances 22 px and an Enemy troop 21 px per    *)
(* 200 ms, so positions stay integers too.                                 *)
(*                                                                         *)
(* Time.  now is pygame.time.get_ticks() in milliseconds.  A frame of the  *)
(* main loop (main.py:227-231) advances the clock by dt and calls          *)
(* GameController.update(dt).                                              *)
(***************************************************************************)
EXTENDS Integers, Sequences, FiniteSets, TLC

(***************************************************************************)
(* Program constants (src/utils/constants.py).                             *)
(***************************************************************************)
TOWER_RADIUS == 30
TOWER_MAX_TROOPS == 50
TOWER_GROWTH_RATE == 1
TROOP_SPEED == 100
TROOP_RADIUS == 12

PLAYER == "player"
ENEMY == "enemy"
NEUTRAL == "neutral"
OwnerType == {PLAYER, ENEMY, NEUTRAL}

PLAYING == "playing"
GAME_OVER == "game_over"
PAUSED == "paused"
LEVEL_COMPLETE == "level_complete"
GameState == {PLAYING, GAME_OVER, PAUSED, LEVEL_COMPLETE}

\* winner is None until a win is detected
NoWinner == "none"

(***************************************************************************)
(* Small helpers.                                                          *)
(***************************************************************************)
Min(a, b) == IF a <= b THEN a ELSE b
Max(a, b) == IF a >= b THEN a ELSE b
Abs(a) == IF a >= 0 THEN a ELSE 0 - a
Range(s) == {s[i] : i \in 1..Len(s)}

RECURSIVE SumSeq(_)
SumSeq(s) == IF s = << >> THEN 0 ELSE Head(s) + SumSeq(Tail(s))

RECURSIVE SelectIdx(_, _, _)
\* the indices i..Len(flags) at which flags is TRUE, in increasing order
SelectIdx(flags, i, acc) ==
    IF i > Len(flags) THEN acc
    ELSE SelectIdx(flags, i + 1, IF flags[i] THEN Append(acc, i) ELSE acc)

(***************************************************************************)
(* Tower (src/models/tower.py).  A tower is a record                       *)
(*   [x, owner, troops, last_growth_time, selected].                       *)
(* A tower operation returns the new tower, its return value and the       *)
(* notifications it sent to its observers, in order.                       *)
(***************************************************************************)
Tower(x, owner, troops, t) ==
    [x |-> x, owner |-> owner, troops |-> troops, last_growth_time |-> t,
     selected |-> FALSE]

\* Tower.__validate_troops: a negative count raises ValueError
validate_troops(value) == value >= 0

\* an owner check that accepts every value
validate_owner_any(owner) == TRUE

\* Tower.__validate_owner and Troop.__validate_owner: an owner that is not
\* one of the three OwnerType values raises ValueError
validate_owner(owner) == owner \in OwnerType

\* Tower.__init__: the fields are stored as given, then owner and troops
\* are validated; raised tells whether the constructor raised ValueError
tower_init(x, owner, troops, t) ==
    [tower |-> Tower(x, owner, troops, t),
     raised |-> ~(validate_owner(owner) /\ validate_troops(troops))]

\* Tower.owner setter: the value is validated before it is stored and
\* owner_changed is notified
owner_setter(tower, value) ==
    IF ~validate_owner(value) THEN [tower |-> tower, events |-> << >>, raised |-> TRUE]
    ELSE [tower |-> [tower EXCEPT !.owner = value],
          events |-> << [type |-> "owner_changed", old_owner |-> tower.owner,
                         new_owner |-> value] >>,
          raised |-> FALSE]

\* a troops setter that stores the value as it is
troops_setter_uncapped(tower, value) == [tower EXCEPT !.troops = value]

\* Tower.troops setter: the stored value is capped at max_troops
troops_setter(tower, value) ==
    [tower EXCEPT !.troops = Min(value, TOWER_MAX_TROOPS)]

\* a growth test that forgets the owner
can_grow_any(tower) == tower.troops < TOWER_MAX_TROOPS

\* Tower.can_grow
can_grow(tower) == tower.owner # NEUTRAL /\ tower.troops < TOWER_MAX_TROOPS

\* an update that grows the tower on every call
tower_update_every_call(tower, current_time) ==
    [(IF can_grow(tower)
      THEN troops_setter(tower, tower.troops + TOWER_GROWTH_RATE)
      ELSE tower) EXCEPT !.last_growth_time = current_time]

\* Tower.update: one growth check per call, at most once per elapsed second
tower_update(tower, current_time) ==
    IF current_time - tower.last_growth_time >= 1000
    THEN [(IF can_grow(tower)
           THEN troops_setter(tower, tower.troops + TOWER_GROWTH_RATE)
           ELSE tower) EXCEPT !.last_growth_time = current_time]
    ELSE tower

\* a send test that forgets the owner
can_send_troops_any(tower) == tower.troops > 0

\* Tower.can_send_troops
can_send_troops(tower) == tower.troops > 0 /\ tower.owner # NEUTRAL

\* an amount that rounds the half up
troops_to_send_ceil(tower) == (tower.troops + 1) \div 2

\* the amount send_troops settles on before its "<= 0" check
troops_to_send(tower) ==
    LET half == Max(1, tower.troops \div 2)
    IN  IF half >= tower.troops THEN tower.troops - 1 ELSE half

\* Tower.send_troops(target): [tower, ret, events, raised].  raised tells
\* whether the troops setter rejected the value it was handed (ValueError).
send_troops(tower, target) ==
    IF ~can_send_troops(tower)
    THEN [tower |-> tower, ret |-> 0, events |-> << >>, raised |-> FALSE]
    ELSE IF troops_to_send(tower) <= 0
         THEN [tower |-> tower, ret |-> 0, events |-> << >>, raised |-> FALSE]
         ELSE LET n == troops_to_send(tower)
                  t2 == troops_setter(tower, tower.troops - n)
              IN  [tower |-> t2, ret |-> n,
                   events |-> << [type |-> "troops_changed",
                                  old_troops |-> tower.troops,
                                  new_troops |-> t2.troops],
                                 [type |-> "troops_sent", target |-> target,
                                  troops_count |-> n] >>,
                   raised |-> ~validate_troops(tower.troops - n)]

\* a receive_attack that needs strictly more attackers than defenders to
\* capture
receive_attack_strict(tower, attacking_troops, attacker_owner) ==
    IF tower.owner = attacker_owner
    THEN [tower |-> troops_setter(tower, tower.troops + attacking_troops),
          ret |-> FALSE, events |-> << >>, raised |-> FALSE]
    ELSE IF attacking_troops > tower.troops
         THEN [tower |-> troops_setter([tower EXCEPT !.owner = attacker_owner],
                                       attacking_troops - tower.troops),
               ret |-> TRUE, events |-> << >>, raised |-> FALSE]
         ELSE [tower |-> troops_setter(tower, tower.troops - attacking_troops),
               ret |-> FALSE, events |-> << >>, raised |-> FALSE]

\* a receive_attack that treats the owner's own troops as attackers
receive_attack_no_reinforce(tower, attacking_troops, attacker_owner) ==
    IF attacking_troops >= tower.troops
    THEN [tower |-> troops_setter([tower EXCEPT !.owner = attacker_owner],
                                  attacking_troops - tower.troops),
          ret |-> tower.owner # attacker_owner, events |-> << >>, raised |-> FALSE]
    ELSE [tower |-> troops_setter(tower, tower.troops - attacking_troops),
          ret |-> FALSE, events |-> << >>, raised |-> FALSE]

\* a receive_attack after which a tower taken by an exact tie belongs to
\* nobody
receive_attack_tie_neutral(tower, attacking_troops, attacker_owner) ==
    IF tower.owner # attacker_owner /\ attacking_troops = tower.troops
    THEN [tower |-> troops_setter([tower EXCEPT !.owner = NEUTRAL], 0),
          ret |-> TRUE,
          events |-> << [type |-> "owner_changed", old_owner |-> tower.owner,
                         new_owner |-> NEUTRAL] >>,
          raised |-> FALSE]
    ELSE receive_attack_strict(tower, attacking_troops, attacker_owner)

\* Tower.receive_attack(attacking_troops, attacker_owner):
\* [tower, ret, events, raised].  ret is TRUE when the tower was captured.
\* On a capture the owner setter notifies owner_changed before the troop
\* count is written.
receive_attack(tower, attacking_troops, attacker_owner) ==
    IF tower.owner = attacker_owner
    THEN LET t2 == troops_setter(tower, tower.troops + attacking_troops)
         IN  [tower |-> t2, ret |-> FALSE,
              events |-> << [type |-> "troops_changed",
                             old_troops |-> tower.troops,
                             new_troops |-> t2.troops] >>,
              raised |-> ~validate_troops(tower.troops + attacking_troops)]
    ELSE IF attacking_troops >= tower.troops
         THEN LET remaining_troops == attacking_troops - tower.troops
                  t1 == [tower EXCEPT !.owner = attacker_owner]
                  t2 == troops_setter(t1, remaining_troops)
              IN  [tower |-> t2, ret |-> TRUE,
                   events |-> << [type |-> "owner_changed",
                                  old_owner |-> tower.owner,
                                  new_owner |-> attacker_owner],
                                 [type |-> "troops_changed",
                                  old_troops |-> tower.troops,
                                  new_troops |-> t2.troops] >>,
                   raised |-> ~validate_troops(remaining_troops)]
         ELSE LET t2 == troops_setter(tower, tower.troops - attacking_troops)
              IN  [tower |-> t2, ret |-> FALSE,
                   events |-> << [type |-> "troops_changed",
                                  old_troops |-> tower.troops,
                                  new_troops |-> t2.troops] >>,
                   raised |-> ~validate_troops(tower.troops - attacking_troops)]

(***************************************************************************)
(* Troop (src/models/troop.py).  A troop is a record                       *)
(*   [id, x, target_x, owner, count];                                      *)
(* id stands for the identity of the Python object.  The spawn queue       *)
(* builds a PlayerTroop for owner Player and an EnemyTroop otherwise, so   *)
(* the subclass, and with it the speed factor, follows from the owner.     *)
(***************************************************************************)
Troop(id, x, target_x, owner, count) ==
    [id |-> id, x |-> x, target_x |-> target_x, owner |-> owner, count |-> count]

\* Troop.__validate_count: a count <= 0 raises ValueError
validate_count(count) == count > 0

\* Troop.__init__: the fields are stored, then count and owner are
\* validated; raised tells whether the constructor raised ValueError
troop_init(id, x, target_x, owner, count) ==
    [troop |-> Troop(id, x, target_x, owner, count),
     raised |-> ~(validate_count(count) /\ validate_owner(owner))]

\* speed * dt in pixels, dt in ms: PlayerTroop.move scales dt by 1.1,
\* EnemyTroop.move by 1.05
base_movement_step(troop, dt) ==
    IF troop.owner = PLAYER
    THEN (TROOP_SPEED * dt * 110) \div 100000
    ELSE (TROOP_SPEED * dt * 105) \div 100000

\* Troop.move.  Inside the slow-down zone (distance < 20) the step is
\* base * max(0.3, distance / 20); it is kept here multiplied by 20.  With
\* frames of 200 ms or more the base step is at least 20 px, so inside the
\* zone the step always covers the distance and the troop snaps to the
\* target: the integer division below is exact wherever it is reached.
move(troop, dt) ==
    LET current_distance == Abs(troop.target_x - troop.x)
        base == base_movement_step(troop, dt)
        step20 == IF current_distance < 20
                  THEN base * Max(6, current_distance)
                  ELSE base * 20
        direction == IF troop.target_x >= troop.x THEN 1 ELSE 0 - 1
    IN  IF current_distance <= 2 THEN [troop EXCEPT !.x = troop.target_x]
        ELSE IF step20 >= 20 * current_distance
             THEN [troop EXCEPT !.x = troop.target_x]
             ELSE [troop EXCEPT !.x = troop.x + direction * (step20 \div 20)]

has_reached_target(troop) == Abs(troop.target_x - troop.x) <= 5

\* a combat in which the winner loses nothing
combat_with_no_loss(troop1, troop2) ==
    [winner1 |-> troop1.owner = troop2.owner \/ troop1.count > troop2.count,
     winner2 |-> troop1.owner = troop2.owner \/ troop2.count > troop1.count,
     troop1 |-> troop1, troop2 |-> troop2]

\* variant of combat_with in which the first troop of a tie stays in the list
\* with no units left
combat_with_tie_survives(troop1, troop2) ==
    IF troop1.owner = troop2.owner
    THEN [winner1 |-> TRUE, winner2 |-> TRUE, troop1 |-> troop1, troop2 |-> troop2]
    ELSE [winner1 |-> troop1.count >= troop2.count,
          winner2 |-> troop2.count > troop1.count,
          troop1 |-> [troop1 EXCEPT !.count = Max(troop1.count - troop2.count, 0)],
          troop2 |-> [troop2 EXCEPT !.count = Max(troop2.count - troop1.count, 0)]]

\* Troop.combat_with(other): which of the two survives, and with what count
combat_with(troop1, troop2) ==
    IF troop1.owner = troop2.owner
    THEN [winner1 |-> TRUE, winner2 |-> TRUE, troop1 |-> troop1, troop2 |-> troop2]
    ELSE IF troop1.count > troop2.count
         THEN [winner1 |-> TRUE, winner2 |-> FALSE,
               troop1 |-> [troop1 EXCEPT !.count = troop1.count - troop2.count],
               troop2 |-> troop2]
         ELSE IF troop2.count > troop1.count
              THEN [winner1 |-> FALSE, winner2 |-> TRUE, troop1 |-> troop1,
                    troop2 |-> [troop2 EXCEPT !.count = troop2.count - troop1.count]]
              ELSE [winner1 |-> FALSE, winner2 |-> FALSE,
                    troop1 |-> troop1, troop2 |-> troop2]

\* the collision test of _handle_troop_combat: different owners and
\* distance <= radius + radius + 15
in_collision(troop1, troop2) ==
    /\ troop1.owner # troop2.owner
    /\ Abs(troop1.x - troop2.x) <= TROOP_RADIUS + TROOP_RADIUS + 15

RECURSIVE RemoveIndices(_, _, _)
\* "for i in reversed(sorted(to_remove)): del list[i]": the list without
\* the entries at the indices in to_remove
RemoveIndices(list, to_remove, i) ==
    IF i > Len(list) THEN << >>
    ELSE IF i \in to_remove THEN RemoveIndices(list, to_remove, i + 1)
         ELSE <<list[i]>> \o RemoveIndices(list, to_remove, i + 1)

\* an inner loop that pairs a troop again after it has fought
first_opponent_again(list, i, to_remove, in_combat) ==
    LET cand == {j \in (i + 1)..Len(list) :
                    /\ j \notin to_remove
                    /\ in_collision(list[i], list[j])}
    IN  IF cand = {} THEN 0 ELSE CHOOSE j \in cand : \A k \in cand : j <= k

\* the inner loop of _handle_troop_combat: the first j > i that is not yet
\* removed or in combat and collides with troop i; 0 when there is none
first_opponent(list, i, to_remove, in_combat) ==
    LET cand == {j \in (i + 1)..Len(list) :
                    /\ j \notin to_remove
                    /\ j \notin in_combat
                    /\ in_collision(list[i], list[j])}
    IN  IF cand = {} THEN 0 ELSE CHOOSE j \in cand : \A k \in cand : j <= k

RECURSIVE combat_loop(_, _)
\* the outer loop of _handle_troop_combat from index i on;
\* st = [troops, to_remove, in_combat, fights]
combat_loop(i, st) ==
    IF i > Len(st.troops) THEN st
    ELSE IF i \in st.to_remove \/ i \in st.in_combat THEN combat_loop(i + 1, st)
    ELSE LET j == first_opponent(st.troops, i, st.to_remove, st.in_combat)
         IN  IF j = 0 THEN combat_loop(i + 1, st)
             ELSE LET r == combat_with(st.troops[i], st.troops[j])
                  IN  combat_loop(i + 1,
                        [troops |-> [st.troops EXCEPT ![i] = r.troop1, ![j] = r.troop2],
                         to_remove |-> st.to_remove
                                       \cup (IF r.winner1 THEN {} ELSE {i})
                                       \cup (IF r.winner2 THEN {} ELSE {j}),
                         in_combat |-> st.in_combat \cup {i, j},
                         fights |-> Append(st.fights,
                                     [id1 |-> st.troops[i].id, id2 |-> st.troops[j].id,
                                      owner1 |-> st.troops[i].owner,
                                      owner2 |-> st.troops[j].owner,
                                      count1 |-> st.troops[i].count,
                                      count2 |-> st.troops[j].count])])

\* GameController._handle_troop_combat on a troop list:
\* [troops |-> the list afterwards, fights |-> the combats fought, in order]
handle_troop_combat(list) ==
    LET st == combat_loop(1, [troops |-> list, to_remove |-> {},
                              in_combat |-> {}, fights |-> << >>])
    IN  [troops |-> RemoveIndices(st.troops, st.to_remove, 1), fights |-> st.fights]

(***************************************************************************)
(* Level manager (src/controllers/level_manager.py) and the level table    *)
(* (src/utils/constants.py, LevelConfig).                                  *)
(***************************************************************************)
max_level == 3

level_configs ==
    [l \in 1..max_level |->
        IF l = 1 THEN [ai_difficulty |-> "easy", player_towers |-> 3,
                       enemy_towers |-> 2, neutral_towers |-> 2,
                       initial_troops |-> 20, enemy_initial_troops |-> 10]
        ELSE IF l = 2 THEN [ai_difficulty |-> "medium", player_towers |-> 2,
                            enemy_towers |-> 3, neutral_towers |-> 3,
                            initial_troops |-> 25, enemy_initial_troops |-> 12]
        ELSE [ai_difficulty |-> "hard", player_towers |-> 2,
              enemy_towers |-> 4, neutral_towers |-> 2,
              initial_troops |-> 30, enemy_initial_troops |-> 20]]

\* LevelManager.get_current_level_config
get_current_level_config(level) ==
    IF level \in DOMAIN level_configs THEN level_configs[level] ELSE level_configs[1]

\* LevelManager.complete_current_level on the record c that holds
\* current_level and levels_completed: the level is recorded, the result
\* tells whether a next level exists
complete_current_level(c) ==
    [c |-> [c EXCEPT !.levels_completed = @ \cup {c.current_level}],
     ret |-> c.current_level < max_level]

\* an advance that does not look at max_level
level_advance_unbounded(c) ==
    [c |-> [c EXCEPT !.current_level = @ + 1], ret |-> TRUE]

\* LevelManager.advance_to_next_level
level_advance_to_next_level(c) ==
    IF c.current_level < max_level
    THEN [c |-> [c EXCEPT !.current_level = @ + 1], ret |-> TRUE]
    ELSE [c |-> c, ret |-> FALSE]

\* a reset that keeps the completed levels
reset_to_level_1_keeping(c) == [c EXCEPT !.current_level = 1]

\* LevelManager.reset_to_level_1
reset_to_level_1(c) == [c EXCEPT !.current_level = 1, !.levels_completed = {}]

(***************************************************************************)
(* The state.  The controller's fields keep their names without the        *)
(* leading underscore; current_level and levels_completed are the level    *)
(* manager's, last_action_time and difficulty the AI controller's.         *)
(*   next_id  the next troop identity to hand out                          *)
(*   crashed  an exception left update(): the main loop stops              *)
(*            (main.py:234-237)                                            *)
(*   inputs   the number of player inputs (of operations, where a single    *)
(*            object is exercised) so far                                   *)
(*   last     what the last step did: the operation, its arguments and     *)
(*            the calls and notifications made inside it                   *)
(***************************************************************************)
VARIABLES game_state, towers, troops, spawn_queue, selected_tower, winner,
          game_ended, current_level, levels_completed, last_action_time,
          difficulty, now, next_id, crashed, inputs, last

vars == <<game_state, towers, troops, spawn_queue, selected_tower, winner,
          game_ended, current_level, levels_completed, last_action_time,
          difficulty, now, next_id, crashed, inputs, last>>

\* the controller and its collaborators as one record, with the logs of the
\* step being taken:
\*   events   notifications sent, in order
\*   attacks  receive_attack calls made by _update_troops
\*   sends    send_troops calls
\*   checks   _check_win_condition calls
\*   arrived  the troops grouped as tower arrivals: [id, owner, count, x, tower]
\*   arrivals the strength of each owner's arrivals at each tower
\*   fights   troop-vs-troop combats
Self ==
    [game_state |-> game_state, towers |-> towers, troops |-> troops,
     spawn_queue |-> spawn_queue, selected_tower |-> selected_tower,
     winner |-> winner, game_ended |-> game_ended,
     current_level |-> current_level, levels_completed |-> levels_completed,
     last_action_time |-> last_action_time, difficulty |-> difficulty,
     next_id |-> next_id, crashed |-> crashed,
     events |-> << >>, attacks |-> << >>, sends |-> << >>, checks |-> << >>,
     arrived |-> {}, arrivals |-> << >>, fights |-> << >>]

notify(c, event) == [c EXCEPT !.events = Append(@, event)]

\* the number of towers of one owner
owner_count(tw, owner) == Cardinality({i \in 1..Len(tw) : tw[i].owner = owner})

\* the winner _check_win_condition computes from the tower list
winner_of(tw) ==
    IF owner_count(tw, PLAYER) > 0 /\ owner_count(tw, ENEMY) = 0 THEN PLAYER
    ELSE IF owner_count(tw, ENEMY) > 0 /\ owner_count(tw, PLAYER) = 0 THEN ENEMY
    ELSE NoWinner

\* what a win check logs before it looks at the towers
check_entry(c) ==
    [player_towers |-> owner_count(c.towers, PLAYER),
     enemy_towers |-> owner_count(c.towers, ENEMY),
     state_before |-> c.game_state, latch_before |-> c.game_ended]

\* a logged win check that changed nothing
check_logged(c, evaluated) ==
    [c EXCEPT !.checks = Append(@, check_entry(c) @@ [evaluated |-> evaluated,
                                state_after |-> c.game_state, winner_after |-> c.winner])]

\* GameController._check_win_condition past its first "return": the towers
\* are counted and a winner ends the game
evaluate_win_condition(c) ==
    IF winner_of(c.towers) = NoWinner THEN check_logged(c, TRUE)
    ELSE IF winner_of(c.towers) = PLAYER
    THEN \* complete_current_level(): the level is recorded as completed,
         \* current_level stays
         [complete_current_level(c).c EXCEPT
                   !.game_ended = TRUE,
                   !.game_state = LEVEL_COMPLETE,
                   !.winner = PLAYER,
                   !.events = @ \o << [type |-> "level_complete", winner |-> PLAYER,
                                       level |-> c.current_level,
                                       has_next_level |-> complete_current_level(c).ret],
                                      [type |-> "game_state_changed",
                                       old_state |-> c.game_state,
                                       new_state |-> LEVEL_COMPLETE] >>,
                   !.checks = Append(@, check_entry(c) @@ [evaluated |-> TRUE,
                              state_after |-> LEVEL_COMPLETE, winner_after |-> PLAYER])]
    ELSE \* reset_to_level_1()
         [reset_to_level_1(c) EXCEPT
                   !.game_ended = TRUE,
                   !.game_state = GAME_OVER,
                   !.winner = ENEMY,
                   !.events = @ \o << [type |-> "game_over", winner |-> ENEMY, level |-> 1],
                                      [type |-> "game_state_changed",
                                       old_state |-> c.game_state,
                                       new_state |-> GAME_OVER] >>,
                   !.checks = Append(@, check_entry(c) @@ [evaluated |-> TRUE,
                              state_after |-> GAME_OVER, winner_after |-> ENEMY])]

\* a win check that looks at the towers every time it is called
check_win_condition_unlatched(c) == evaluate_win_condition(c)

\* GameController._check_win_condition
check_win_condition(c) ==
    IF c.game_ended \/ c.game_state \in {GAME_OVER, LEVEL_COMPLETE}
    THEN check_logged(c, FALSE)
    ELSE evaluate_win_condition(c)

\* the log entry of one receive_attack call; r is what the call returned
attack_record(i, pre, amount, attacker, r) ==
    [tower |-> i, amount |-> amount, attacker |-> attacker,
     owner_before |-> pre.owner, troops_before |-> pre.troops,
     owner_after |-> r.tower.owner, troops_after |-> r.tower.troops,
     captured |-> r.ret, events |-> r.events, raised |-> r.raised]

\* tower i receives an attack inside _update_troops: Tower.receive_attack,
\* the controller's owner_changed callback (update_observer:
\* _handle_tower_captured, then _check_win_condition) when the owner
\* changes, and the caller's _notify_tower_captured when the call returns
\* "captured".  The callback reads owners only, so it sees the same towers
\* whether it runs before or after the troop count is written.
\* r is what receive_attack returned and pre the tower before the call.
tower_received(c, i, pre, amount, attacker, r) ==
    LET c1 == [c EXCEPT !.towers[i] = r.tower,
                        !.attacks = Append(@, attack_record(i, pre, amount, attacker, r))]
        captured_event == [type |-> "tower_captured", tower |-> i,
                           old_owner |-> pre.owner, new_owner |-> attacker]
    IN  IF r.ret
        THEN notify(
                check_win_condition(
                   notify(notify(c1, [type |-> "owner_changed", tower |-> i,
                                      old_owner |-> pre.owner, new_owner |-> attacker]),
                          captured_event)),
                captured_event)
        ELSE c1

\* tower i receives an attack inside _update_troops
tower_receive(c, i, amount, attacker) ==
    tower_received(c, i, c.towers[i], amount, attacker,
                   receive_attack(c.towers[i], amount, attacker))

(***************************************************************************)
(* The spawn queue (game_controller.py:314-414).  An entry is              *)
(*   [x, target_x, owner, spawn_time];                                     *)
(* formation_id and formation_index only label the entry for display.      *)
(***************************************************************************)
RECURSIVE insert_sorted(_, _)
\* list.sort(key=spawn_time) is stable: an appended entry ends up behind
\* every entry whose spawn_time is not larger
insert_sorted(queue, entry) ==
    IF queue = << >> THEN <<entry>>
    ELSE IF Head(queue).spawn_time <= entry.spawn_time
         THEN <<Head(queue)>> \o insert_sorted(Tail(queue), entry)
         ELSE <<entry>> \o queue

RECURSIVE append_entries(_, _, _, _, _, _, _)
append_entries(queue, start_x, target_x, owner, first_time, i, count) ==
    IF i >= count THEN queue
    ELSE append_entries(
            insert_sorted(queue, [x |-> start_x, target_x |-> target_x, owner |-> owner,
                                  spawn_time |-> first_time + i * 120]),
            start_x, target_x, owner, first_time, i + 1, count)

\* a scheduling that starts every send at the current time
create_troop_spawn_queue_now(queue, start_x, target_x, count, owner, current_time) ==
    IF count <= 0 THEN queue
    ELSE append_entries(queue, start_x, target_x, owner, current_time, 0, count)

\* GameController._create_troop_spawn_queue
create_troop_spawn_queue(queue, start_x, target_x, count, owner, current_time) ==
    IF count <= 0 THEN queue
    ELSE LET tower_entries == {k \in 1..Len(queue) :
                                  /\ Abs(queue[k].x - start_x) < 5
                                  /\ queue[k].owner = owner}
             latest == CHOOSE k \in tower_entries :
                          \A m \in tower_entries : queue[m].spawn_time <= queue[k].spawn_time
             last_spawn_time == IF tower_entries = {} THEN current_time
                                ELSE queue[latest].spawn_time + 50
         IN  append_entries(queue, start_x, target_x, owner, last_spawn_time, 0, count)

\* the troop class _process_spawn_queue picks for an entry: PlayerTroop for
\* a Player entry, EnemyTroop for any other
troop_owner(entry) == IF entry.owner = PLAYER THEN PLAYER ELSE ENEMY

RECURSIVE spawn_loop_uncapped(_, _, _)
\* a release loop without the limit of 3 per tick
spawn_loop_uncapped(c, current_time, spawned_count) ==
    IF c.spawn_queue = << >> \/ current_time < c.spawn_queue[1].spawn_time
    THEN c
    ELSE LET e == c.spawn_queue[1]
         IN  spawn_loop_uncapped(
                [c EXCEPT !.troops = Append(@, Troop(c.next_id, e.x, e.target_x,
                                                    troop_owner(e), 1)),
                          !.next_id = @ + 1,
                          !.spawn_queue = Tail(@)],
                current_time, spawned_count + 1)

RECURSIVE spawn_loop(_, _, _)
\* the while loop of _process_spawn_queue
spawn_loop(c, current_time, spawned_count) ==
    IF c.spawn_queue = << >> \/ current_time < c.spawn_queue[1].spawn_time
       \/ spawned_count >= 3
    THEN c
    ELSE LET e == c.spawn_queue[1]
         IN  spawn_loop([c EXCEPT !.troops = Append(@, Troop(c.next_id, e.x, e.target_x,
                                                          troop_owner(e), 1)),
                                  !.next_id = @ + 1,
                                  !.spawn_queue = Tail(@)],
                        current_time, spawned_count + 1)

\* a release that throws away the due entries the limit left behind
process_spawn_queue_dropping(c, current_time) ==
    [spawn_loop(c, current_time, 0) EXCEPT
        !.spawn_queue = SelectSeq(@, LAMBDA e : e.spawn_time > current_time)]

\* GameController._process_spawn_queue
process_spawn_queue(c, current_time) == spawn_loop(c, current_time, 0)

(***************************************************************************)
(* Troop arrivals (game_controller.py:511-611, 669-703).                   *)
(***************************************************************************)
\* GameController._find_target_tower: the first tower whose collision circle
\* holds the troop; else the tower closest to the troop's target, when the
\* target lies on it and the troop is near; else none (0)
find_target_tower(tw, troop) ==
    LET direct == {i \in 1..Len(tw) :
                      Abs(tw[i].x - troop.x) <= TOWER_RADIUS + TROOP_RADIUS + 20}
        closest == CHOOSE i \in 1..Len(tw) :
                      \A k \in 1..Len(tw) :
                         \/ Abs(tw[i].x - troop.target_x) < Abs(tw[k].x - troop.target_x)
                         \/ /\ Abs(tw[i].x - troop.target_x) = Abs(tw[k].x - troop.target_x)
                            /\ i <= k
    IN  IF direct # {} THEN CHOOSE i \in direct : \A k \in direct : i <= k
        ELSE IF /\ Len(tw) > 0
                /\ Abs(tw[closest].x - troop.target_x) <= TOWER_RADIUS + 5
                /\ Abs(tw[closest].x - troop.x) <= TOWER_RADIUS + 30
             THEN closest
             ELSE 0

\* an arrival check that never finds a tower for a troop
arrival_tower_none(tw, list) == [i \in 1..Len(list) |-> 0]

\* the tower each troop of the list arrives at in this tick (0: none)
arrival_tower(tw, list) ==
    [i \in 1..Len(list) |->
        IF has_reached_target(list[i]) THEN find_target_tower(tw, list[i]) ELSE 0]

RECURSIVE arrival_order(_, _, _)
\* the keys of the tower_arrivals dict in insertion order
arrival_order(at, i, acc) ==
    IF i > Len(at) THEN acc
    ELSE arrival_order(at, i + 1,
            IF at[i] # 0 /\ at[i] \notin Range(acc) THEN Append(acc, at[i]) ELSE acc)

\* the summed count of the troops of one owner arriving at tower k
arrival_strength(list, at, k, owner) ==
    LET idx == SelectIdx([i \in 1..Len(list) |-> at[i] = k /\ list[i].owner = owner],
                         1, << >>)
    IN  SumSeq([n \in 1..Len(idx) |-> list[idx[n]].count])

arrivals_of(list, at, k, owners) ==
    {i \in 1..Len(list) : at[i] = k /\ list[i].owner \in owners}

\* "if total_x_strength > 0: tower.receive_attack(total_x_strength, x)"
receive_if_any(c, k, strength, owner) ==
    IF strength > 0 THEN tower_receive(c, k, strength, owner) ELSE c

\* the body of "for tower, arriving_troops in tower_arrivals.items()" for
\* tower k once the strengths of the Player, Enemy and Neutral arrivals are
\* summed; st = [c, to_remove]
resolve_arrivals_at(st, at, k, total_player_strength, total_enemy_strength, total_neutral_strength) ==
    LET c0 == [st.c EXCEPT !.arrivals = Append(@, [tower |-> k,
                                                   player |-> total_player_strength,
                                                   enemy |-> total_enemy_strength,
                                                   neutral |-> total_neutral_strength])]
    IN  IF total_player_strength > 0 /\ total_enemy_strength > 0
        THEN [c |-> IF total_player_strength > total_enemy_strength
                    THEN tower_receive(c0, k,
                            total_player_strength - total_enemy_strength, PLAYER)
                    ELSE IF total_enemy_strength > total_player_strength
                    THEN tower_receive(c0, k,
                            total_enemy_strength - total_player_strength, ENEMY)
                    ELSE c0,
              to_remove |-> st.to_remove
                            \cup arrivals_of(st.c.troops, at, k, {PLAYER, ENEMY})]
        ELSE [c |-> receive_if_any(
                       receive_if_any(
                          receive_if_any(c0, k, total_player_strength, PLAYER),
                          k, total_enemy_strength, ENEMY),
                       k, total_neutral_strength, NEUTRAL),
              to_remove |-> st.to_remove
                            \cup arrivals_of(st.c.troops, at, k, {PLAYER, ENEMY, NEUTRAL})]

\* arrivals that reach the tower owner by owner, without being set against
\* each other
process_arrivals_separately(st, at, k) ==
    [c |-> receive_if_any(
              receive_if_any(
                 [st.c EXCEPT !.arrivals = Append(@,
                      [tower |-> k,
                       player |-> arrival_strength(st.c.troops, at, k, PLAYER),
                       enemy |-> arrival_strength(st.c.troops, at, k, ENEMY),
                       neutral |-> arrival_strength(st.c.troops, at, k, NEUTRAL)])],
                 k, arrival_strength(st.c.troops, at, k, PLAYER), PLAYER),
              k, arrival_strength(st.c.troops, at, k, ENEMY), ENEMY),
     to_remove |-> st.to_remove \cup arrivals_of(st.c.troops, at, k, {PLAYER, ENEMY})]

\* the body of that loop for tower k
process_arrivals_at(st, at, k) ==
    resolve_arrivals_at(st, at, k,
                        arrival_strength(st.c.troops, at, k, PLAYER),
                        arrival_strength(st.c.troops, at, k, ENEMY),
                        arrival_strength(st.c.troops, at, k, NEUTRAL))

RECURSIVE process_arrivals(_, _, _, _)
process_arrivals(st, at, order, n) ==
    IF n > Len(order) THEN st
    ELSE process_arrivals(process_arrivals_at(st, at, order[n]), at, order, n + 1)

\* GameController._update_troops: move, resolve tower arrivals, remove the
\* arrived troops, then troop-vs-troop combat
\* the arrival pass of _update_troops over the moved troops; at is the tower
\* each of them arrives at: [c, to_remove]
arrival_pass(c, moved, at) ==
    process_arrivals([c |-> [c EXCEPT !.troops = moved,
                                      !.arrived = {[id |-> moved[i].id,
                                                    owner |-> moved[i].owner,
                                                    count |-> moved[i].count,
                                                    x |-> moved[i].x,
                                                    tower |-> at[i]] :
                                          i \in {j \in 1..Len(moved) : at[j] # 0}}],
                      to_remove |-> {}],
                     at, arrival_order(at, 1, << >>), 1)

\* the troops a pass has marked are taken off the list
remove_troops(st) == [st.c EXCEPT !.troops = RemoveIndices(@, st.to_remove, 1)]

\* the combat pass of _update_troops; fought is what _handle_troop_combat
\* made of the troop list
combat_pass(c, fought) == [c EXCEPT !.troops = fought.troops, !.fights = fought.fights]

\* an _update_troops that lets the troops fight before the arrivals are
\* resolved
update_moved_troops_combat_first(c, moved) ==
    LET fought == handle_troop_combat(moved)
    IN  combat_pass(remove_troops(arrival_pass(c, fought.troops,
                                               arrival_tower(c.towers, fought.troops))),
                    [troops |-> remove_troops(arrival_pass(c, fought.troops,
                                       arrival_tower(c.towers, fought.troops))).troops,
                     fights |-> fought.fights])

\* _update_troops after the troops have moved
update_moved_troops(c, moved) ==
    LET arrived == remove_troops(arrival_pass(c, moved, arrival_tower(c.towers, moved)))
    IN  combat_pass(arrived, handle_troop_combat(arrived.troops))

\* GameController._update_troops
update_troops(c, dt) ==
    update_moved_troops(c, [i \in 1..Len(c.troops) |-> move(c.troops[i], dt)])

(***************************************************************************)
(* AI (src/controllers/ai_controller.py).  Towers are named by their index *)
(* in the tower list.  A proposal of the strategy is                       *)
(*   [kind |-> "none"], [kind |-> "single", source, target] or             *)
(*   [kind |-> "multi", sources, target, type].                            *)
(* random.random() makes the choice of the action type nondeterministic,   *)
(* so the strategy yields a set of proposals.                              *)
(***************************************************************************)
distance_to(tw, i, k) == Abs(tw[i].x - tw[k].x)

\* the towers of the given owners, in list order
towers_of(tw, owners) == SelectIdx([i \in 1..Len(tw) |-> tw[i].owner \in owners], 1, << >>)

\* [t for t in seq if P(t)] for a sequence of tower indices
Filter(seq, keep) == LET idx == SelectIdx([n \in 1..Len(seq) |-> seq[n] \in keep], 1, << >>)
                     IN  [n \in 1..Len(idx) |-> seq[idx[n]]]

RECURSIVE sort_desc(_, _, _)
\* sorted(seq, key, reverse=True): stable, so equal keys keep their order.
\* greater holds the pairs <<a, b>> of towers with key(a) > key(b).
sort_desc(seq, greater, acc) ==
    IF seq = << >> THEN acc
    ELSE LET best == CHOOSE n \in 1..Len(seq) :
                        /\ \A m \in 1..Len(seq) : <<seq[m], seq[n]>> \notin greater
                        /\ \A m \in 1..(n - 1) : <<seq[n], seq[m]>> \in greater
         IN  sort_desc(SubSeq(seq, 1, best - 1) \o SubSeq(seq, best + 1, Len(seq)),
                       greater, Append(acc, seq[best]))

\* max(seq, key): the first element with the largest key
max_by(seq, greater) == sort_desc(seq, greater, << >>)[1]

\* SmartStrategy._select_assault_target.  The key is
\* owner_bonus + 0.6 * nearby_support + 1 / max(troops, 1); keys are
\* compared as exact fractions (times 10).
assault_priority_greater(tw, available, a, b) ==
    LET bonus(t) == (IF tw[t].owner = PLAYER THEN 30 ELSE 10)
                    + 6 * Cardinality({n \in 1..Len(available) :
                                          /\ distance_to(tw, available[n], t) < 250
                                          /\ tw[available[n]].troops > 5})
        tr(t) == Max(tw[t].troops, 1)
    IN  bonus(a) * tr(a) * tr(b) + 10 * tr(b) > bonus(b) * tr(a) * tr(b) + 10 * tr(a)

select_assault_target(tw, targets, available) ==
    max_by(targets, {p \in Range(targets) \X Range(targets) :
                        assault_priority_greater(tw, available, p[1], p[2])})

\* SmartStrategy._assemble_assault_force: key troops + 200 / max(distance, 1)
assemble_assault_force(tw, available, target) ==
    LET dist(t) == Max(distance_to(tw, t, target), 1)
        potential_attackers ==
            Filter(available, {t \in Range(available) :
                                  distance_to(tw, t, target) < 300 /\ tw[t].troops > 1})
        greater == {p \in Range(available) \X Range(available) :
                       tw[p[1]].troops * dist(p[1]) * dist(p[2]) + 200 * dist(p[2])
                       > tw[p[2]].troops * dist(p[1]) * dist(p[2]) + 200 * dist(p[1])}
        sorted == sort_desc(potential_attackers, greater, << >>)
    IN  IF potential_attackers = << >> /\ available # << >> THEN <<available[1]>>
        ELSE SubSeq(sorted, 1, Min(2, Len(sorted)))

RECURSIVE unique_positions(_, _, _)
\* the "seen_positions" loop of _assemble_expansion_force
unique_positions(tw, seq, acc) ==
    IF seq = << >> THEN acc
    ELSE unique_positions(tw, Tail(seq),
            IF \E n \in 1..Len(acc) : tw[acc[n]].x = tw[Head(seq)].x
            THEN acc ELSE Append(acc, Head(seq)))

\* SmartStrategy._assemble_expansion_force: key
\* 0.4 * troops + 100 / max(distance, 1) + difficulty_bonus
assemble_expansion_force(tw, available, target, diff) ==
    LET max_distance == IF diff = "easy" THEN 300 ELSE IF diff = "medium" THEN 350 ELSE 400
        max_expanders_count == IF diff = "easy" THEN 2 ELSE IF diff = "medium" THEN 3 ELSE 4
        dist(t) == Max(distance_to(tw, t, target), 1)
        expanders ==
            Filter(available, {t \in Range(available) :
                                  distance_to(tw, t, target) < max_distance
                                  /\ tw[t].troops > 0})
        greater == {p \in Range(available) \X Range(available) :
                       4 * tw[p[1]].troops * dist(p[1]) * dist(p[2]) + 1000 * dist(p[2])
                       > 4 * tw[p[2]].troops * dist(p[1]) * dist(p[2]) + 1000 * dist(p[1])}
        sorted == sort_desc(expanders, greater, << >>)
        count0 == Min(max_expanders_count, Len(sorted))
        selected_count == IF diff \in {"medium", "hard"} /\ Len(sorted) >= 2
                          THEN Max(2, count0) ELSE count0
    IN  IF expanders = << >> /\ available # << >> THEN <<available[1]>>
        ELSE unique_positions(tw, SubSeq(sorted, 1, selected_count), << >>)

\* SmartStrategy._coordinated_assault
coordinated_assault(tw, available, targets) ==
    IF targets = << >> THEN [kind |-> "none"]
    ELSE LET priority_target == select_assault_target(tw, targets, available)
             assault_force == assemble_assault_force(tw, available, priority_target)
         IN  IF assault_force = << >> THEN [kind |-> "none"]
             ELSE [kind |-> "multi", sources |-> assault_force,
                   target |-> priority_target, type |-> "coordinated_assault"]

\* SmartStrategy._strategic_expansion.  _select_expansion_target scores a
\* neutral tower by its distance to the screen point (400, 300), which
\* needs both coordinates; the model lets it pick any neutral target.
strategic_expansion(tw, available, neutral_targets, diff) ==
    IF neutral_targets = << >> THEN {[kind |-> "none"]}
    ELSE {LET expansion_force == assemble_expansion_force(tw, available,
                                                          expansion_target, diff)
          IN  IF expansion_force = << >> THEN [kind |-> "none"]
              ELSE [kind |-> "multi", sources |-> expansion_force,
                    target |-> expansion_target, type |-> "strategic_expansion"] :
          expansion_target \in Range(neutral_targets)}

\* a strike that aims at the last available tower, one of the AI's own
opportunistic_strike_own(tw, available, targets) ==
    IF targets = << >> \/ available = << >> THEN [kind |-> "none"]
    ELSE [kind |-> "single", source |-> available[1],
          target |-> available[Len(available)]]

\* SmartStrategy._opportunistic_strike: the first available tower attacks
\* the target closest to it
opportunistic_strike(tw, available, targets) ==
    IF targets = << >> \/ available = << >> THEN [kind |-> "none"]
    ELSE LET source_tower == available[1]
             closer == {p \in Range(targets) \X Range(targets) :
                           distance_to(tw, source_tower, p[1])
                           < distance_to(tw, source_tower, p[2])}
         IN  [kind |-> "single", source |-> source_tower,
              target |-> max_by(targets, closer)]

\* SmartStrategy._analyze_situation: the action types random.random() can
\* lead to ("defensive_consolidation" is never returned)
analyze_situation(tw, enemy_towers, neutral_towers) ==
    LET available_towers == Filter(enemy_towers, {t \in Range(enemy_towers) : tw[t].troops > 1})
    IN  (IF Len(available_towers) >= 2 THEN {"coordinated_assault"} ELSE {})
        \cup (IF neutral_towers # << >> THEN {"strategic_expansion"} ELSE {})
        \cup {"opportunistic_strike"}

\* SmartStrategy.decide_action: the set of proposals it can return
decide_action(tw, enemy_towers, diff) ==
    LET available_towers == Filter(enemy_towers, {t \in Range(enemy_towers) : tw[t].troops > 0})
        player_towers == towers_of(tw, {PLAYER})
        neutral_towers == towers_of(tw, {NEUTRAL})
    IN  IF enemy_towers = << >> \/ available_towers = << >> THEN {[kind |-> "none"]}
        ELSE UNION {IF action_type = "coordinated_assault"
                    THEN {coordinated_assault(tw, available_towers,
                                              player_towers \o neutral_towers)}
                    ELSE IF action_type = "strategic_expansion"
                    THEN strategic_expansion(tw, available_towers, neutral_towers, diff)
                    ELSE {opportunistic_strike(tw, available_towers,
                                               player_towers \o neutral_towers)} :
                    action_type \in analyze_situation(tw, enemy_towers, neutral_towers)}

\* AggressiveStrategy._find_best_attack: the first pair of source and
\* target, sources outermost, with the largest score among the pairs at most
\* 400 apart; none when there is no such pair.  The score is
\* 10 * target_priority + max(0, source.troops - target.troops)
\* + 100 / max(distance, 1); scores are compared as exact fractions.
attack_score_greater(tw, a, b) ==
    LET base(p) == (IF tw[p[2]].owner = PLAYER THEN 20 ELSE 10)
                   + Max(0, tw[p[1]].troops - tw[p[2]].troops)
        dist(p) == Max(distance_to(tw, p[1], p[2]), 1)
    IN  base(a) * dist(a) * dist(b) + 100 * dist(b)
        > base(b) * dist(a) * dist(b) + 100 * dist(a)

find_best_attack(tw, available, targets) ==
    LET pairs == [n \in 1..(Len(available) * Len(targets)) |->
                     << available[((n - 1) \div Len(targets)) + 1],
                        targets[((n - 1) % Len(targets)) + 1] >>]
        near == SelectSeq(pairs, LAMBDA p : distance_to(tw, p[1], p[2]) <= 400)
    IN  IF near = << >> THEN [kind |-> "none"]
        ELSE LET best == max_by(near, {q \in Range(near) \X Range(near) :
                                          attack_score_greater(tw, q[1], q[2])})
             IN  [kind |-> "single", source |-> best[1], target |-> best[2]]

\* AggressiveStrategy.decide_action
aggressive_decide_action(tw, enemy_towers) ==
    LET available_towers == Filter(enemy_towers, {t \in Range(enemy_towers) : tw[t].troops > 0})
        all_targets == towers_of(tw, {PLAYER}) \o towers_of(tw, {NEUTRAL})
    IN  IF enemy_towers = << >> \/ available_towers = << >> \/ all_targets = << >>
        THEN [kind |-> "none"]
        ELSE IF find_best_attack(tw, available_towers, all_targets).kind # "none"
        THEN find_best_attack(tw, available_towers, all_targets)
        ELSE LET strongest_tower ==
                     max_by(available_towers,
                            {q \in Range(available_towers) \X Range(available_towers) :
                                tw[q[1]].troops > tw[q[2]].troops})
             IN  [kind |-> "single", source |-> strongest_tower,
                  target |-> max_by(all_targets,
                                    {q \in Range(all_targets) \X Range(all_targets) :
                                        distance_to(tw, strongest_tower, q[1])
                                        < distance_to(tw, strongest_tower, q[2])})]

\* DefensiveStrategy.decide_action
defensive_decide_action(tw, enemy_towers) ==
    LET available_towers == Filter(enemy_towers, {t \in Range(enemy_towers) : tw[t].troops > 1})
        neutral_towers == towers_of(tw, {NEUTRAL})
        targets == IF neutral_towers # << >> THEN neutral_towers ELSE towers_of(tw, {PLAYER})
    IN  IF enemy_towers = << >> \/ available_towers = << >> \/ targets = << >>
        THEN [kind |-> "none"]
        ELSE LET source ==
                     max_by(available_towers,
                            {q \in Range(available_towers) \X Range(available_towers) :
                                tw[q[1]].troops > tw[q[2]].troops})
             IN  [kind |-> "single", source |-> source,
                  target |-> max_by(targets,
                                    {q \in Range(targets) \X Range(targets) :
                                        distance_to(tw, source, q[1])
                                        < distance_to(tw, source, q[2])})]

\* strategy.decide_action(enemy_towers, all_towers) for the three strategy
\* classes: the proposals the call can return
strategy_decide(strategy, tw, enemy_towers, diff) ==
    IF strategy = "aggressive" THEN {aggressive_decide_action(tw, enemy_towers)}
    ELSE IF strategy = "defensive" THEN {defensive_decide_action(tw, enemy_towers)}
    ELSE decide_action(tw, enemy_towers, diff)

\* a decide_action that marks the towers it proposes to send from
towers_after_decide_marked(tw, proposal) ==
    [i \in 1..Len(tw) |->
        IF proposal.kind = "single" /\ proposal.source = i
        THEN [tw[i] EXCEPT !.selected = TRUE]
        ELSE IF proposal.kind = "multi" /\ i \in Range(proposal.sources)
        THEN [tw[i] EXCEPT !.troops = @ - 1]
        ELSE tw[i]]

\* the tower list after decide_action has returned proposal: the strategies
\* read x, y, owner and troops of the towers and call distance_to; they
\* assign to no tower and call none of its mutating methods
towers_after_decide(tw, proposal) == tw

\* the controller after tower i, which was pre, has run send_troops with the
\* outcome r
tower_sent(c, i, pre, target, r) ==
    [c EXCEPT !.towers[i] = r.tower,
              !.events = @ \o [n \in 1..Len(r.events) |->
                                  r.events[n] @@ [tower |-> i]],
              !.sends = Append(@, [tower |-> i, target |-> target,
                                   owner_before |-> pre.owner,
                                   troops_before |-> pre.troops,
                                   owner_after |-> r.tower.owner,
                                   troops_after |-> r.tower.troops,
                                   ret |-> r.ret,
                                   events |-> r.events,
                                   raised |-> r.raised])]

\* tower i sends to tower target: Tower.send_troops with its notifications
\* delivered to the controller
tower_send(c, i, target) ==
    tower_sent(c, i, c.towers[i], target, send_troops(c.towers[i], target))

\* the return value of the last send_troops call
last_sent(c) == c.sends[Len(c.sends)].ret

\* AIController.should_take_action; action_interval is 1500 for every
\* difficulty (set_difficulty)
action_interval == 1500

\* a gate that is always open
should_take_action_always(c, current_time) == TRUE

should_take_action(c, current_time) == current_time - c.last_action_time >= action_interval

\* the fallback of execute_action when the strategy proposes nothing
fallback_action(tw, enemy_towers) ==
    LET all_targets == towers_of(tw, {PLAYER, NEUTRAL})
    IN  IF enemy_towers # << >> /\ all_targets # << >> /\ tw[enemy_towers[1]].troops > 0
        THEN [kind |-> "single", source |-> enemy_towers[1], target |-> all_targets[1]]
        ELSE [kind |-> "none"]

\* one round of the loop over the sources of a multi-tower action, after
\* send_troops: the attack is recorded when troops were sent
record_attack(st, c1, source, target) ==
    [c |-> c1,
     successful_attacks |->
         IF last_sent(c1) > 0
         THEN Append(st.successful_attacks,
                     [source |-> source, target |-> target,
                      troops_count |-> last_sent(c1)])
         ELSE st.successful_attacks]

RECURSIVE send_from_sources(_, _, _, _)
\* the loop over the sources of a multi-tower action;
\* st = [c, successful_attacks]
send_from_sources(st, sources, target, n) ==
    IF n > Len(sources) THEN st
    ELSE send_from_sources(
            IF can_send_troops(st.c.towers[sources[n]])
            THEN record_attack(st, tower_send(st.c, sources[n], target), sources[n], target)
            ELSE st,
            sources, target, n + 1)

\* the result of a multi-tower action; st is what the loop over its sources
\* left
multi_result(st, action, current_time) ==
    IF st.successful_attacks # << >>
    THEN [c |-> [st.c EXCEPT !.last_action_time = current_time],
          result |-> [kind |-> "multi", attacks |-> st.successful_attacks,
                      target |-> action.target,
                      total_troops |->
                          SumSeq([n \in 1..Len(st.successful_attacks) |->
                                     st.successful_attacks[n].troops_count])]]
    ELSE [c |-> st.c, result |-> [kind |-> "none"]]

\* the result of a single-tower action; c1 is the controller after
\* send_troops
single_result(c1, action, current_time) ==
    IF last_sent(c1) > 0
    THEN [c |-> [c1 EXCEPT !.last_action_time = current_time],
          result |-> [kind |-> "single", source |-> action.source,
                      target |-> action.target,
                      troops_count |-> last_sent(c1)]]
    ELSE [c |-> c1, result |-> [kind |-> "none"]]

\* AIController.execute_action for the action it settled on
perform_action(c, action, current_time) ==
    IF action.kind = "none" THEN [c |-> c, result |-> [kind |-> "none"]]
    ELSE IF action.kind = "multi"
    THEN multi_result(send_from_sources([c |-> c, successful_attacks |-> << >>],
                                        action.sources, action.target, 1),
                      action, current_time)
    ELSE IF can_send_troops(c.towers[action.source])
         THEN single_result(tower_send(c, action.source, action.target),
                            action, current_time)
         ELSE [c |-> c, result |-> [kind |-> "none"]]

\* AIController.execute_action once the strategy has proposed: [c, result].
\* result is [kind |-> "none"], the single-tower dict
\* [kind |-> "single", source, target, troops_count] or the multi-tower
\* dict [kind |-> "multi", attacks, target, total_troops], which has no
\* 'source' key.
carry_out(c, proposal, current_time) ==
    perform_action(c,
                   IF proposal.kind = "none"
                   THEN fallback_action(c.towers, towers_of(c.towers, {ENEMY}))
                   ELSE proposal,
                   current_time)

\* the proposals the strategy can make in execute_action; the empty set
\* when execute_action returns before asking the strategy
ai_proposals(c, current_time) ==
    IF ~should_take_action(c, current_time) \/ towers_of(c.towers, {ENEMY}) = << >>
    THEN {}
    ELSE decide_action(c.towers, towers_of(c.towers, {ENEMY}), c.difficulty)

(***************************************************************************)
(* GameController.update (game_controller.py:479-509).                     *)
(***************************************************************************)
\* "for tower in self.__towers: tower.update(dt)"
grow_towers(c, current_time) ==
    [c EXCEPT !.towers = [i \in 1..Len(c.towers) |->
                             tower_update(c.towers[i], current_time)]]

\* the part of update before the AI is asked: spawn queue, tower growth,
\* troops
update_world(c, dt, current_time) ==
    update_troops(grow_towers(process_spawn_queue(c, current_time), current_time), dt)

\* the rest of update with the AI's result: a single-tower result is queued
\* and the win condition checked; a multi-tower result has no 'source' key,
\* so reading it raises KeyError and update is left at that point
update_finish(c, result, current_time) ==
    IF result.kind = "multi" THEN [c EXCEPT !.crashed = TRUE]
    ELSE IF result.kind = "single"
    THEN check_win_condition(
            [c EXCEPT !.spawn_queue =
                 create_troop_spawn_queue(@, c.towers[result.source].x,
                                          c.towers[result.target].x,
                                          result.troops_count, ENEMY, current_time)])
    ELSE check_win_condition(c)

\* the end of update for what execute_action returned: r = [c, result]
finish_action(r, current_time) == update_finish(r.c, r.result, current_time)

\* the controllers update can leave, one for each proposal the strategy can
\* make
update_ai(c, proposals, current_time) ==
    IF proposals = {} THEN {update_finish(c, [kind |-> "none"], current_time)}
    ELSE {finish_action(carry_out(c, proposal, current_time), current_time) :
          proposal \in proposals}

\* the part of update from the AI's turn on
update_after_world(c, current_time) ==
    update_ai(c, ai_proposals(c, current_time), current_time)

\* an update that runs the tick in every state
update_any_state(c, dt, current_time) ==
    update_after_world(update_world(c, dt, current_time), current_time)

\* GameController.update: nothing happens unless the game is Playing
update(c, dt, current_time) ==
    IF c.game_state # PLAYING THEN {c}
    ELSE update_after_world(update_world(c, dt, current_time), current_time)

(***************************************************************************)
(* Player input (game_controller.py:273-312, 454-477).                     *)
(***************************************************************************)
\* a deselection that forgets the tower but leaves its flag set
deselect_tower_keeping_flag(c) == [c EXCEPT !.selected_tower = 0]

\* GameController._deselect_tower
deselect_tower(c) ==
    IF c.selected_tower # 0
    THEN [c EXCEPT !.towers[c.selected_tower].selected = FALSE, !.selected_tower = 0]
    ELSE c

\* GameController._send_troops after send_troops: the troops are queued
\* when any were sent
controller_sent(c1, x, target_x, source, target, current_time) ==
    IF last_sent(c1) > 0
    THEN notify([c1 EXCEPT !.spawn_queue =
                     create_troop_spawn_queue(@, x, target_x, last_sent(c1), PLAYER,
                                              current_time)],
                [type |-> "troops_spawn_started", count |-> last_sent(c1),
                 source |-> source, target |-> target])
    ELSE c1

\* a _send_troops without the check of the source's owner
controller_send_troops_any_owner(c, source, target, current_time) ==
    controller_sent(tower_send(c, source, target), c.towers[source].x,
                    c.towers[target].x, source, target, current_time)

\* GameController._send_troops
controller_send_troops(c, source, target, current_time) ==
    IF c.towers[source].owner # PLAYER THEN c
    ELSE controller_sent(tower_send(c, source, target), c.towers[source].x,
                         c.towers[target].x, source, target, current_time)

\* a click handler that selects any tower that can send
handle_tower_click_any_owner(c, tower, current_time) ==
    IF c.game_state # PLAYING THEN c
    ELSE IF c.selected_tower = 0
    THEN IF can_send_troops(c.towers[tower])
         THEN [c EXCEPT !.selected_tower = tower, !.towers[tower].selected = TRUE]
         ELSE c
    ELSE deselect_tower(IF tower # c.selected_tower
                        THEN controller_send_troops(c, c.selected_tower, tower, current_time)
                        ELSE c)

\* GameController._handle_tower_click
handle_tower_click(c, tower, current_time) ==
    IF c.game_state # PLAYING THEN c
    ELSE IF c.selected_tower = 0
    THEN IF c.towers[tower].owner = PLAYER /\ can_send_troops(c.towers[tower])
         THEN [c EXCEPT !.selected_tower = tower, !.towers[tower].selected = TRUE]
         ELSE c
    ELSE deselect_tower(IF tower # c.selected_tower
                        THEN controller_send_troops(c, c.selected_tower, tower, current_time)
                        ELSE c)

\* GameController.handle_click; tower is the first tower containing the
\* clicked point, 0 for a click on empty space
handle_click(c, tower, current_time) ==
    IF tower # 0 THEN handle_tower_click(c, tower, current_time) ELSE deselect_tower(c)

(***************************************************************************)
(* Levels and restarts (game_controller.py:184-247, 777-865).              *)
(***************************************************************************)
\* GameController._calculate_tower_positions: the slots of each side, as
\* x coordinates on the model's line.  The source has two Player slots, two
\* Enemy slots and six Neutral slots; the table used for play keeps the two
\* Player and the two Enemy slots and one Neutral slot between them.
calculate_tower_positions ==
    [player |-> <<105, 0>>, enemy |-> <<315, 420>>, neutral |-> <<210>>]

\* "for i in range(n): if i < len(positions)": the slots that get a tower
used_slots(n, slots) == SubSeq(slots, 1, Min(n, Len(slots)))

\* GameController._create_initial_towers_for_level.  neutral_positions is
\* the shuffled slot list, neutral_troops[i] the random.randint(5, 15)
\* drawn for the i-th Neutral tower.
create_initial_towers_for_level(level_config, positions, neutral_positions, neutral_troops, current_time) ==
    LET ps == used_slots(level_config.player_towers, positions.player)
        es == used_slots(level_config.enemy_towers, positions.enemy)
        ns == used_slots(level_config.neutral_towers, neutral_positions)
    IN  [i \in 1..Len(ps) |->
            Tower(ps[i], PLAYER, level_config.initial_troops, current_time)]
        \o [i \in 1..Len(es) |->
            Tower(es[i], ENEMY, level_config.enemy_initial_troops, current_time)]
        \o [i \in 1..Len(ns) |->
            Tower(ns[i], NEUTRAL, neutral_troops[i], current_time)]

\* the part restart_game and _init_new_level share: the game objects are
\* rebuilt for the current level, the AI gets the level's difficulty and
\* AIController.reset_stats restarts its clock
new_level_objects(c, neutral_positions, neutral_troops, current_time) ==
    LET level_config == get_current_level_config(c.current_level)
    IN  [c EXCEPT !.towers = create_initial_towers_for_level(
                                 level_config, calculate_tower_positions,
                                 neutral_positions, neutral_troops, current_time),
                  !.troops = << >>,
                  !.spawn_queue = << >>,
                  !.selected_tower = 0,
                  !.winner = NoWinner,
                  !.difficulty = level_config.ai_difficulty,
                  !.last_action_time = current_time]

\* GameController._init_new_level: game_state and game_ended are not
\* written
init_new_level(c, neutral_positions, neutral_troops, current_time) ==
    new_level_objects(c, neutral_positions, neutral_troops, current_time)

\* a restart that keeps the troops in flight and the dispatch queue
restart_game_keeping_troops(c, neutral_positions, neutral_troops, current_time) ==
    notify([new_level_objects([c EXCEPT !.game_state = PLAYING, !.game_ended = FALSE],
                              neutral_positions, neutral_troops, current_time)
               EXCEPT !.troops = c.troops, !.spawn_queue = c.spawn_queue],
           [type |-> "game_restarted", level |-> c.current_level])

\* GameController.restart_game
restart_game(c, neutral_positions, neutral_troops, current_time) ==
    LET old_state == c.game_state
        c1 == new_level_objects([c EXCEPT !.game_state = PLAYING, !.game_ended = FALSE],
                                neutral_positions, neutral_troops, current_time)
        c2 == IF old_state # PLAYING
              THEN notify(c1, [type |-> "game_state_changed", old_state |-> old_state,
                               new_state |-> PLAYING])
              ELSE c1
    IN  notify(notify(c2, [type |-> "game_restarted", level |-> c.current_level]),
               [type |-> "game_resumed"])

\* LevelManager.set_level
set_level(c, level) ==
    IF level \in DOMAIN level_configs THEN [c EXCEPT !.current_level = level] ELSE c

\* GameController.advance_to_next_level: LevelManager.complete_current_level
\* records the level and reports whether a next one exists; current_level
\* is not advanced
advance_to_next_level(c, neutral_positions, neutral_troops, current_time) ==
    LET c1 == complete_current_level(c).c
    IN  IF complete_current_level(c).ret
        THEN notify([init_new_level(c1, neutral_positions, neutral_troops, current_time)
                        EXCEPT !.game_state = PLAYING],
                    [type |-> "level_changed", level |-> c.current_level])
        ELSE notify([c1 EXCEPT !.game_state = GAME_OVER],
                    [type |-> "all_levels_complete"])

\* GameController.handle_level_complete_input; key is "space", "r" or any
\* other key
handle_level_complete_input(c, key, neutral_positions, neutral_troops, current_time) ==
    IF c.game_state # LEVEL_COMPLETE THEN c
    ELSE IF key = "space"
    THEN notify([init_new_level(c, neutral_positions, neutral_troops, current_time)
                    EXCEPT !.game_state = PLAYING],
                [type |-> "level_started", level |-> c.current_level])
    ELSE IF key = "r"
    THEN restart_game(c, neutral_positions, neutral_troops, current_time)
    ELSE c

\* a pause that treats every state but Playing as Paused
pause_game_toggle(c) ==
    LET new_state == IF c.game_state = PLAYING THEN PAUSED ELSE PLAYING
    IN  notify(notify([c EXCEPT !.game_state = new_state],
                      [type |-> "game_state_changed", old_state |-> c.game_state,
                       new_state |-> new_state]),
               [type |-> IF new_state = PAUSED THEN "game_paused" ELSE "game_resumed"])

\* GameController.pause_game
pause_game(c) ==
    LET new_state == IF c.game_state = PLAYING THEN PAUSED
                     ELSE IF c.game_state = PAUSED THEN PLAYING
                     ELSE c.game_state
    IN  notify(notify([c EXCEPT !.game_state = new_state],
                      [type |-> "game_state_changed", old_state |-> c.game_state,
                       new_state |-> new_state]),
               [type |-> IF new_state = PAUSED THEN "game_paused" ELSE "game_resumed"])

(***************************************************************************)
(* Bounds of the exploration.                                              *)
(***************************************************************************)
\* the clock reads StartTime when the exploration starts and is followed up
\* to MaxTime ms
StartTime == 1500
MaxTime == 4500
\* at most MaxInputs clicks, key presses and menu commands are followed
MaxInputs == 3
\* frame lengths in ms
DtSet == {1000}
\* the values followed for random.randint(5, 15)
NeutralTroopsSet == {5, 15}
\* keys offered to handle_level_complete_input
Keys == {"space", "r", "other"}

RECURSIVE Shuffles(_)
\* the orders random.shuffle can leave a list in
Shuffles(seq) ==
    IF seq = << >> THEN {<< >>}
    ELSE UNION {{<<seq[n]>> \o rest :
                    rest \in Shuffles(SubSeq(seq, 1, n - 1)
                                          \o SubSeq(seq, n + 1, Len(seq)))} :
                n \in 1..Len(seq)}

\* the random inputs of a level start: the shuffled Neutral slots and the
\* troop count drawn for each Neutral tower
LevelRandom ==
    {[neutral_positions |-> np, neutral_troops |-> nt] :
        np \in Shuffles(calculate_tower_positions.neutral),
        nt \in [1..Len(calculate_tower_positions.neutral) -> NeutralTroopsSet]}

(***************************************************************************)
(* Steps.  Commit(c, op, arg) makes the controller record c the next       *)
(* state and records the step in last.                                     *)
(***************************************************************************)
Commit(c, op, arg) ==
    /\ game_state' = c.game_state
    /\ towers' = c.towers
    /\ troops' = c.troops
    /\ spawn_queue' = c.spawn_queue
    /\ selected_tower' = c.selected_tower
    /\ winner' = c.winner
    /\ game_ended' = c.game_ended
    /\ current_level' = c.current_level
    /\ levels_completed' = c.levels_completed
    /\ last_action_time' = c.last_action_time
    /\ difficulty' = c.difficulty
    /\ next_id' = c.next_id
    /\ crashed' = c.crashed
    /\ last' = [op |-> op, arg |-> arg, events |-> c.events, attacks |-> c.attacks,
                sends |-> c.sends, checks |-> c.checks, arrived |-> c.arrived,
                arrivals |-> c.arrivals, fights |-> c.fights]

\* one frame of the main loop (main.py:224-233, 466-483): the clock advances
\* by dt and GameController.update(dt) runs; update returns at once unless
\* the game is Playing
Update(dt) ==
    /\ ~crashed
    /\ now + dt <= MaxTime
    /\ now' = now + dt
    /\ UNCHANGED inputs
    /\ \E c \in update(Self, dt, now + dt) :
          Commit(c, "update", [dt |-> dt, ran |-> game_state = PLAYING])

\* a mouse click while Playing (main.py:438-444): on tower i, or on empty
\* space (0)
Click(i) ==
    /\ ~crashed
    /\ inputs < MaxInputs
    /\ game_state = PLAYING
    /\ inputs' = inputs + 1
    /\ UNCHANGED now
    /\ Commit(handle_click(Self, i, now), "click",
              [tower |-> i, selected |-> selected_tower])

\* the restart command of the pause menu (main.py:399-405)
Restart(rnd) ==
    /\ ~crashed
    /\ inputs < MaxInputs
    /\ inputs' = inputs + 1
    /\ UNCHANGED now
    /\ Commit(restart_game(Self, rnd.neutral_positions, rnd.neutral_troops, now),
              "restart_game", [level |-> current_level])

\* main.py start_game(level): LevelManager.set_level, then restart_game
StartGame(level, rnd) ==
    /\ ~crashed
    /\ inputs < MaxInputs
    /\ inputs' = inputs + 1
    /\ UNCHANGED now
    /\ Commit(restart_game(set_level(Self, level), rnd.neutral_positions,
                           rnd.neutral_troops, now),
              "start_game", [level |-> level])

\* main.py start_next_level: LevelManager.advance_to_next_level, then
\* restart_game when there is a next level
StartNextLevel(rnd) ==
    /\ ~crashed
    /\ inputs < MaxInputs
    /\ inputs' = inputs + 1
    /\ UNCHANGED now
    /\ IF level_advance_to_next_level(Self).ret
       THEN Commit(restart_game(level_advance_to_next_level(Self).c,
                                rnd.neutral_positions, rnd.neutral_troops, now),
                   "start_next_level",
                   [level |-> level_advance_to_next_level(Self).c.current_level])
       ELSE Commit(Self, "start_next_level", [level |-> current_level])

\* a key press on the level-complete screen (main.py:347-349)
LevelCompleteInput(key, rnd) ==
    /\ ~crashed
    /\ inputs < MaxInputs
    /\ game_state = LEVEL_COMPLETE
    /\ inputs' = inputs + 1
    /\ UNCHANGED now
    /\ Commit(handle_level_complete_input(Self, key, rnd.neutral_positions,
                                          rnd.neutral_troops, now),
              "handle_level_complete_input", [key |-> key])

\* GameController.advance_to_next_level
AdvanceToNextLevel(rnd) ==
    /\ ~crashed
    /\ inputs < MaxInputs
    /\ inputs' = inputs + 1
    /\ UNCHANGED now
    /\ Commit(advance_to_next_level(Self, rnd.neutral_positions, rnd.neutral_troops, now),
              "advance_to_next_level", [level |-> current_level, state |-> game_state])

\* GameController.pause_game, in any state; main.py calls it on ESC or SPACE
\* while Playing or Paused (main.py:333-361)
Pause ==
    /\ ~crashed
    /\ inputs < MaxInputs
    /\ inputs' = inputs + 1
    /\ UNCHANGED now
    /\ Commit(pause_game(Self), "pause_game", [state |-> game_state])

(***************************************************************************)
(* The game.  The exploration starts from boards in the middle of a game:  *)
(* the towers stand on the slots of the position table in the order        *)
(* _create_initial_towers_for_level makes them (Player slots, Enemy slots, *)
(* Neutral slots), some already captured, with troop counts from small     *)
(* sets; both sides own a tower, nothing is in flight, and the AI last     *)
(* acted action_interval ago.  game_ended is FALSE after restart_game and  *)
(* TRUE in a level entered through _init_new_level after a completed one,  *)
(* which leaves the flag as it was.                                        *)
(***************************************************************************)
SlotX ==
    calculate_tower_positions.player \o calculate_tower_positions.enemy
    \o calculate_tower_positions.neutral

\* owner and troop count of each slot: an even board, one with a Player
\* tower at the cap, one with a single weak Enemy tower left, one with a
\* single weak Player tower left, one where the Player has just captured
\* the middle tower
BoardSeeds ==
    { << <<PLAYER, 8>>, <<PLAYER, 8>>, <<ENEMY, 6>>, <<ENEMY, 2>>, <<NEUTRAL, 1>> >>,
      << <<PLAYER, 49>>, <<PLAYER, 8>>, <<ENEMY, 2>>, <<ENEMY, 2>>, <<NEUTRAL, 1>> >>,
      << <<PLAYER, 8>>, <<PLAYER, 8>>, <<ENEMY, 0>>, <<PLAYER, 8>>, <<NEUTRAL, 1>> >>,
      << <<PLAYER, 1>>, <<ENEMY, 6>>, <<ENEMY, 6>>, <<ENEMY, 2>>, <<NEUTRAL, 1>> >>,
      << <<PLAYER, 8>>, <<PLAYER, 3>>, <<ENEMY, 6>>, <<ENEMY, 2>>, <<PLAYER, 1>> >> }

Boards ==
    {[i \in 1..Len(SlotX) |-> Tower(SlotX[i], b[i][1], b[i][2], StartTime)] :
        b \in BoardSeeds}

NoStep ==
    [op |-> "init", arg |-> [dt |-> 0], events |-> << >>, attacks |-> << >>,
     sends |-> << >>, checks |-> << >>, arrived |-> {}, arrivals |-> << >>,
     fights |-> << >>]

\* a game in progress on level 1; the board with a single Player tower is
\* also played on the last level, with the levels below it completed.  The
\* game_ended flag is clear, or left set by an earlier level of the session.
Init ==
    /\ towers \in Boards
    /\ game_state = PLAYING
    /\ troops = << >>
    /\ spawn_queue = << >>
    /\ selected_tower = 0
    /\ winner = NoWinner
    /\ game_ended \in BOOLEAN
    /\ current_level \in IF owner_count(towers, PLAYER) = 1 THEN {1, max_level} ELSE {1}
    /\ levels_completed = 1..(current_level - 1)
                            \cup (IF game_ended THEN {current_level} ELSE {})
    /\ last_action_time = StartTime - action_interval
    /\ difficulty = get_current_level_config(current_level).ai_difficulty
    /\ now = StartTime
    /\ next_id = 1
    /\ crashed = FALSE
    /\ inputs = 0
    /\ last = NoStep

Next ==
    \/ \E dt \in DtSet : Update(dt)
    \/ \E i \in 0..Len(towers) : Click(i)
    \/ \E rnd \in LevelRandom : Restart(rnd)
    \/ \E level \in 1..max_level, rnd \in LevelRandom : StartGame(level, rnd)
    \/ \E rnd \in LevelRandom : StartNextLevel(rnd)
    \/ \E key \in Keys, rnd \in LevelRandom : LevelCompleteInput(key, rnd)
    \/ \E rnd \in LevelRandom : AdvanceToNextLevel(rnd)
    \/ Pause

Spec == Init /\ [][Next]_vars

(***************************************************************************)
(* One tower on its own: Tower.send_troops, Tower.receive_attack and       *)
(* Tower.update applied to a tower of any owner and any troop count, with  *)
(* attacks of up to MaxAttack troops.                                      *)
(***************************************************************************)
MaxAttack == 52
\* operations applied in a row
MaxTowerOps == 1

Idle ==
    /\ game_state = PLAYING
    /\ troops = << >>
    /\ spawn_queue = << >>
    /\ selected_tower = 0
    /\ winner = NoWinner
    /\ game_ended = FALSE
    /\ current_level = 1
    /\ levels_completed = {}
    /\ last_action_time = StartTime
    /\ difficulty = get_current_level_config(1).ai_difficulty
    /\ now = StartTime
    /\ next_id = 1
    /\ crashed = FALSE
    /\ inputs = 0
    /\ last = NoStep

InitTower ==
    /\ towers \in {<<Tower(0, owner, n, StartTime)>> :
                      owner \in OwnerType, n \in 0..TOWER_MAX_TROOPS}
    /\ Idle

\* tower.send_troops(target)
TowerSend ==
    /\ inputs < MaxTowerOps
    /\ inputs' = inputs + 1
    /\ UNCHANGED now
    /\ Commit(tower_send(Self, 1, 0), "send_troops", [target |-> 0])

\* tower.receive_attack(attacking_troops, attacker_owner)
TowerReceive(attacking_troops, attacker_owner) ==
    /\ inputs < MaxTowerOps
    /\ inputs' = inputs + 1
    /\ UNCHANGED now
    /\ LET r == receive_attack(towers[1], attacking_troops, attacker_owner)
       IN  Commit([Self EXCEPT !.towers[1] = r.tower,
                               !.events = r.events,
                               !.attacks = <<attack_record(1, towers[1], attacking_troops,
                                                           attacker_owner, r)>>],
                  "receive_attack",
                  [attacking_troops |-> attacking_troops,
                   attacker_owner |-> attacker_owner])

\* tower.update(dt) after dt ms
TowerUpdate(dt) ==
    /\ inputs < MaxTowerOps
    /\ inputs' = inputs + 1
    /\ now + dt <= MaxTime
    /\ now' = now + dt
    /\ Commit([Self EXCEPT !.towers[1] = tower_update(towers[1], now + dt)],
              "tower_update", [dt |-> dt])

NextTower ==
    \/ TowerSend
    \/ \E n \in 1..MaxAttack, owner \in OwnerType : TowerReceive(n, owner)
    \/ \E dt \in DtSet : TowerUpdate(dt)

SpecTower == InitTower /\ [][NextTower]_vars

(***************************************************************************)
(* Troops on their own: Troop.combat_with and                              *)
(* GameController._handle_troop_combat applied to lists of troops of any   *)
(* owner with counts in CombatCounts, MaxTroopList at most, standing on   *)
(* the positions CombatXs.  One operation is applied to each list.         *)
(***************************************************************************)
\* the counts of the troops of a starting list
CombatCounts == 1..3
MaxTroopList == 3
\* 0 and 39 are within the collision threshold of each other, 0 and 40
\* are not
CombatXs == {0, 39, 40}

\* position, owner and count of a troop of the starting list
TroopSeeds == [x : CombatXs, owner : {PLAYER, ENEMY}, count : CombatCounts]

InitCombat ==
    /\ towers = << >>
    /\ \E n \in 2..MaxTroopList :
          \E f \in [1..n -> TroopSeeds] :
             troops = [i \in 1..n |-> Troop(i, f[i].x, 0, f[i].owner, f[i].count)]
    /\ spawn_queue = << >>
    /\ game_state = PLAYING
    /\ selected_tower = 0
    /\ winner = NoWinner
    /\ game_ended = FALSE
    /\ current_level = 1
    /\ levels_completed = {}
    /\ last_action_time = StartTime
    /\ difficulty = get_current_level_config(1).ai_difficulty
    /\ now = StartTime
    /\ next_id = MaxTroopList + 1
    /\ crashed = FALSE
    /\ inputs = 0
    /\ last = NoStep

\* troops[i].combat_with(troops[j]); a loser is dropped from the list, as
\* _handle_troop_combat does with a None result
CombatWith(i, j) ==
    /\ last = NoStep
    /\ UNCHANGED now
    /\ UNCHANGED inputs
    /\ LET r == combat_with(troops[i], troops[j])
           list == [troops EXCEPT ![i] = r.troop1, ![j] = r.troop2]
       IN  Commit([Self EXCEPT !.troops = RemoveIndices(list,
                                              (IF r.winner1 THEN {} ELSE {i})
                                              \cup (IF r.winner2 THEN {} ELSE {j}), 1)],
                  "combat_with",
                  [troop1 |-> troops[i], troop2 |-> troops[j],
                   winner1 |-> r.winner1, winner2 |-> r.winner2,
                   count1 |-> r.troop1.count, count2 |-> r.troop2.count])

\* self._handle_troop_combat()
HandleTroopCombat ==
    /\ last = NoStep
    /\ UNCHANGED now
    /\ UNCHANGED inputs
    /\ LET r == handle_troop_combat(troops)
       IN  Commit([Self EXCEPT !.troops = r.troops, !.fights = r.fights],
                  "handle_troop_combat", [before |-> troops])

NextCombat ==
    \/ \E i \in 1..Len(troops), j \in 1..Len(troops) : i # j /\ CombatWith(i, j)
    \/ HandleTroopCombat

SpecCombat == InitCombat /\ [][NextCombat]_vars

(***************************************************************************)
(* The dispatch queue on its own: sends enqueue units through              *)
(* _create_troop_spawn_queue and every frame runs _process_spawn_queue,    *)
(* with frames of 100 ms (shorter than the 120 ms between two units) and   *)
(* of 1000 ms (a lag that makes many entries due at once).  Troops are not *)
(* moved, so the troop list holds every troop created; in this             *)
(* specification the sends log accumulates over the steps.                 *)
(***************************************************************************)
\* sends made in a row
MaxSends == 2
\* units of one send
QueueCounts == {1, 4}
QueueDtSet == {100, 1000}
\* origin towers with the owners that send from them (the first tower
\* changes hands), and the destination
QueueSources == {105, 315}
QueueSenders == {<<105, PLAYER>>, <<105, ENEMY>>, <<315, ENEMY>>}
QueueTarget == 210
\* sends happen in the first frames; the clock is followed long enough past
\* them for every scheduled release time to pass and the queue to empty
QueueSendUntil == StartTime + 100
QueueMaxTime == MaxTime + 1000

InitQueue ==
    /\ towers = << >>
    /\ Idle

\* GameController._create_troop_spawn_queue for a send of count units
QueueSend(start_x, owner, count) ==
    /\ inputs < MaxSends
    /\ now <= QueueSendUntil
    /\ inputs' = inputs + 1
    /\ UNCHANGED now
    /\ Commit([Self EXCEPT
                  !.spawn_queue = create_troop_spawn_queue(@, start_x, QueueTarget, count,
                                                           owner, now),
                  !.sends = Append(last.sends, [x |-> start_x, owner |-> owner,
                                                count |-> count])],
              "create_troop_spawn_queue",
              [start_x |-> start_x, owner |-> owner, count |-> count])

\* one frame: GameController._process_spawn_queue at the new clock reading
QueueTick(dt) ==
    /\ now + dt <= QueueMaxTime
    /\ now' = now + dt
    /\ UNCHANGED inputs
    /\ Commit([process_spawn_queue(Self, now + dt) EXCEPT !.sends = last.sends],
              "process_spawn_queue", [dt |-> dt])

NextQueue ==
    \/ \E sender \in QueueSenders, count \in QueueCounts :
          QueueSend(sender[1], sender[2], count)
    \/ \E dt \in QueueDtSet : QueueTick(dt)

SpecQueue == InitQueue /\ [][NextQueue]_vars

\* the main loop runs a frame after every frame (main.py:224-233), so the
\* queue is processed again and again
SpecQueueFair == SpecQueue /\ WF_vars(\E dt \in QueueDtSet : QueueTick(dt))

(***************************************************************************)
(* The AI strategies on their own: decide_action of each strategy class is *)
(* called once on a board of four towers with any owners and small troop   *)
(* counts, the first tower selected when it is the Player's.               *)
(***************************************************************************)
StrategySlotX == <<105, 0, 315, 420>>
StrategyTroops == {0, 1, 7}
Difficulties == {"easy", "hard"}

InitStrategy ==
    /\ \E f \in [1..Len(StrategySlotX) -> OwnerType \X StrategyTroops], sel \in BOOLEAN :
          towers = [i \in 1..Len(StrategySlotX) |->
                       [Tower(StrategySlotX[i], f[i][1], f[i][2], StartTime)
                           EXCEPT !.selected = (sel /\ i = 1 /\ f[1][1] = PLAYER)]]
    /\ selected_tower = IF towers[1].selected THEN 1 ELSE 0
    /\ difficulty \in Difficulties
    /\ game_state = PLAYING
    /\ troops = << >>
    /\ spawn_queue = << >>
    /\ winner = NoWinner
    /\ game_ended = FALSE
    /\ current_level = 1
    /\ levels_completed = {}
    /\ last_action_time = StartTime
    /\ now = StartTime
    /\ next_id = 1
    /\ crashed = FALSE
    /\ inputs = 0
    /\ last = NoStep

\* strategy.decide_action(enemy_towers, all_towers), as execute_action calls
\* it
Decide(strategy) ==
    /\ last = NoStep
    /\ UNCHANGED << now, inputs >>
    /\ \E proposal \in strategy_decide(strategy, towers, towers_of(towers, {ENEMY}),
                                       difficulty) :
          Commit([Self EXCEPT !.towers = towers_after_decide(@, proposal)],
                 "decide_action", [strategy |-> strategy, proposal |-> proposal])

NextStrategy ==
    \/ Decide("aggressive")
    \/ Decide("defensive")
    \/ Decide("smart")

SpecStrategy == InitStrategy /\ [][NextStrategy]_vars

(***************************************************************************)
(* AIController.execute_action with a strategy that proposes any           *)
(* multi-tower action: up to MaxSources Enemy towers in any order, a tower *)
(* possibly more than once, against any tower of another owner.            *)
(***************************************************************************)
MaxSources == 2

\* execute_action when the strategy returned {'sources': sources,
\* 'target': target}
ExecuteAction(sources, target) ==
    /\ last = NoStep
    /\ UNCHANGED << now, inputs >>
    /\ LET r == perform_action(Self, [kind |-> "multi", sources |-> sources,
                                      target |-> target, type |-> "multi_attack"], now)
       IN  Commit(r.c, "execute_action",
                  [sources |-> sources, target |-> target, result |-> r.result,
                   before |-> towers])

NextExecute ==
    \E n \in 1..MaxSources :
       \E sources \in [1..n -> {i \in 1..Len(towers) : towers[i].owner = ENEMY}],
          target \in {i \in 1..Len(towers) : towers[i].owner # ENEMY} :
          ExecuteAction(sources, target)

SpecExecute == InitStrategy /\ [][NextExecute]_vars

(***************************************************************************)
(* Tower growth over several frames: Tower.update called on a tower of any *)
(* owner and troop count after frames shorter than and as long as the      *)
(* growth interval.                                                        *)
(***************************************************************************)
GrowthDtSet == {400, 1000}

\* one frame: tower.update(dt) at the new clock reading
TowerFrame(dt) ==
    /\ now + dt <= MaxTime
    /\ now' = now + dt
    /\ UNCHANGED inputs
    /\ Commit([Self EXCEPT !.towers[1] = tower_update(towers[1], now + dt)],
              "tower_frame", [dt |-> dt, before |-> towers[1]])

NextGrowth == \E dt \in GrowthDtSet : TowerFrame(dt)

SpecGrowth == InitTower /\ [][NextGrowth]_vars

(***************************************************************************)
(* Construction and owner assignment: next to a tower of any owner and     *)
(* troop count, a Tower or a Troop is constructed from valid and invalid   *)
(* arguments, or the tower is assigned a valid or an invalid owner.        *)
(***************************************************************************)
\* owners offered: the three OwnerType values and a string that is none
OwnerInputs == OwnerType \cup {"nobody"}
\* troop counts offered to Tower(): negative, zero, up to above the cap
TowerTroopInputs == {-2, -1, 0, 1, 50, 51}
\* counts offered to Troop()
TroopCountInputs == {-1, 0, 1, 2}

\* Tower(x, y, owner, troops); the tower joins the list unless the
\* constructor raised
TowerCreate(owner, n) ==
    /\ inputs < MaxTowerOps
    /\ inputs' = inputs + 1
    /\ UNCHANGED now
    /\ LET r == tower_init(210, owner, n, now)
       IN  Commit(IF r.raised THEN Self ELSE [Self EXCEPT !.towers = Append(@, r.tower)],
                  "Tower", [owner |-> owner, troops |-> n, raised |-> r.raised])

\* Troop(start, target, owner, count); the troop joins the list unless the
\* constructor raised
TroopCreate(owner, count) ==
    /\ inputs < MaxTowerOps
    /\ inputs' = inputs + 1
    /\ UNCHANGED now
    /\ LET r == troop_init(next_id, 0, 210, owner, count)
       IN  Commit(IF r.raised THEN Self
                  ELSE [Self EXCEPT !.troops = Append(@, r.troop), !.next_id = @ + 1],
                  "Troop", [owner |-> owner, count |-> count, raised |-> r.raised])

\* tower.owner = value
TowerSetOwner(value) ==
    /\ inputs < MaxTowerOps
    /\ inputs' = inputs + 1
    /\ UNCHANGED now
    /\ LET r == owner_setter(towers[1], value)
       IN  Commit([Self EXCEPT !.towers[1] = r.tower, !.events = r.events],
                  "owner_setter",
                  [value |-> value, before |-> towers[1].owner, raised |-> r.raised])

NextConstruct ==
    \/ \E owner \in OwnerInputs, n \in TowerTroopInputs : TowerCreate(owner, n)
    \/ \E owner \in OwnerInputs, count \in TroopCountInputs : TroopCreate(owner, count)
    \/ \E value \in OwnerInputs : TowerSetOwner(value)

SpecConstruct == InitTower /\ [][NextConstruct]_vars

(***************************************************************************)
(* The level manager and the towers a level starts with: the operations of *)
(* LevelManager in any order, with valid and invalid levels, and           *)
(* _create_initial_towers_for_level on the full slot table of              *)
(* _calculate_tower_positions (two Player, two Enemy, six Neutral slots).  *)
(***************************************************************************)
\* the slots of _calculate_tower_positions, each named by an x of its own
level_positions ==
    [player |-> <<105, 0>>, enemy |-> <<315, 420>>,
     neutral |-> <<210, 150, 270, 211, 180, 240>>]

\* levels offered to set_level: the configured ones and one below and one
\* above them
LevelInputs == 0..(max_level + 1)

\* the random inputs of a level start on the full slot table: the first
\* neutral_towers entries random.shuffle can leave at the head of the slot
\* list (any slots, no slot twice) and the troops drawn for them
LevelStarts(level_config) ==
    {[neutral_positions |-> np, neutral_troops |-> nt] :
        np \in {f \in [1..level_config.neutral_towers -> Range(level_positions.neutral)] :
                   \A i, j \in DOMAIN f : f[i] = f[j] => i = j},
        nt \in [1..level_config.neutral_towers -> NeutralTroopsSet]}

InitLevel ==
    /\ towers = << >>
    /\ Idle

SetLevel(level) ==
    /\ towers = << >>
    /\ UNCHANGED <<now, inputs>>
    /\ Commit(set_level(Self, level), "set_level",
              [level |-> level, before |-> current_level])

CompleteCurrentLevel ==
    /\ towers = << >>
    /\ UNCHANGED <<now, inputs>>
    /\ Commit(complete_current_level(Self).c, "complete_current_level",
              [ret |-> complete_current_level(Self).ret, before |-> current_level])

LevelAdvance ==
    /\ towers = << >>
    /\ UNCHANGED <<now, inputs>>
    /\ Commit(level_advance_to_next_level(Self).c, "level_advance_to_next_level",
              [ret |-> level_advance_to_next_level(Self).ret, before |-> current_level])

ResetToLevel1 ==
    /\ towers = << >>
    /\ UNCHANGED <<now, inputs>>
    /\ Commit(reset_to_level_1(Self), "reset_to_level_1", [before |-> current_level])

\* the towers of the current level are created on the cleared tower list,
\* as restart_game and _init_new_level do
CreateInitialTowers(rnd) ==
    /\ towers = << >>
    /\ UNCHANGED <<now, inputs>>
    /\ Commit([Self EXCEPT !.towers = create_initial_towers_for_level(
                                          get_current_level_config(current_level),
                                          level_positions, rnd.neutral_positions,
                                          rnd.neutral_troops, now)],
              "create_initial_towers_for_level", [level |-> current_level])

NextLevel ==
    \/ \E level \in LevelInputs : SetLevel(level)
    \/ CompleteCurrentLevel
    \/ LevelAdvance
    \/ ResetToLevel1
    \/ /\ towers = << >>
       /\ \E rnd \in LevelStarts(get_current_level_config(current_level)) :
             CreateInitialTowers(rnd)

SpecLevel == InitLevel /\ [][NextLevel]_vars

(***************************************************************************)
(* Properties.                                                             *)
(***************************************************************************)
\* the events of one type in a notification list
EventsOfType(events, type) == SelectSeq(events, LAMBDA e : e.type = type)

\* C1: in every reachable state of a game, every tower has between 0 and
\* TOWER_MAX_TROOPS (50) troops.
C1_TroopsWithinBounds ==
    \A i \in 1..Len(towers) :
        towers[i].troops >= 0 /\ towers[i].troops <= TOWER_MAX_TROOPS

\* C1 witness: in a game, a reinforcement that would take a tower past the
\* cap has arrived and the tower stands at the cap.
C1_Witness ==
    /\ last.op = "update"
    /\ \E n \in 1..Len(last.attacks) :
          /\ last.attacks[n].owner_before = last.attacks[n].attacker
          /\ last.attacks[n].troops_before + last.attacks[n].amount > TOWER_MAX_TROOPS
          /\ towers[last.attacks[n].tower].troops = TOWER_MAX_TROOPS

\* C2 as claimed: receive_attack by another owner captures when
\* amount >= troops, leaving amount - troops with the attacker as owner, and
\* otherwise leaves troops - amount with the owner unchanged.
C2_AttackAsClaimed ==
    \A n \in 1..Len(last.attacks) :
        LET a == last.attacks[n]
        IN  a.owner_before # a.attacker =>
               IF a.amount >= a.troops_before
               THEN /\ a.owner_after = a.attacker
                    /\ a.troops_after = a.amount - a.troops_before
                    /\ a.captured
               ELSE /\ a.owner_after = a.owner_before
                    /\ a.troops_after = a.troops_before - a.amount
                    /\ ~a.captured

\* C2: receive_attack by another owner captures when amount >= troops (ties
\* included), leaving min(amount - troops, TOWER_MAX_TROOPS) troops with
\* the attacker as owner, and otherwise leaves troops - amount with the
\* owner unchanged and reports no capture.
C2_AttackResolution ==
    \A n \in 1..Len(last.attacks) :
        LET a == last.attacks[n]
        IN  a.owner_before # a.attacker =>
               IF a.amount >= a.troops_before
               THEN /\ a.owner_after = a.attacker
                    /\ a.troops_after = Min(a.amount - a.troops_before, TOWER_MAX_TROOPS)
                    /\ a.captured
               ELSE /\ a.owner_after = a.owner_before
                    /\ a.troops_after = a.troops_before - a.amount
                    /\ ~a.captured

\* C2 witness: a capture whose surplus is larger than the cap.
C2_Witness ==
    /\ last.op = "receive_attack"
    /\ last.attacks[1].owner_before # last.attacks[1].attacker
    /\ last.attacks[1].captured
    /\ last.attacks[1].amount - last.attacks[1].troops_before > TOWER_MAX_TROOPS
    /\ towers[1].troops = TOWER_MAX_TROOPS

\* C3: receive_attack by the tower's own owner is a reinforcement: the owner
\* stays, no capture is reported and the troop count becomes the old count
\* plus the amount, capped at TOWER_MAX_TROOPS.
C3_Reinforcement ==
    \A n \in 1..Len(last.attacks) :
        LET a == last.attacks[n]
        IN  a.owner_before = a.attacker =>
               /\ a.owner_after = a.owner_before
               /\ ~a.captured
               /\ a.troops_after = Min(a.troops_before + a.amount, TOWER_MAX_TROOPS)

\* C3 witness: a reinforcement below the cap that is added in full.
C3_Witness ==
    /\ last.op = "receive_attack"
    /\ last.attacks[1].owner_before = last.attacks[1].attacker
    /\ last.attacks[1].troops_before = 5
    /\ last.attacks[1].amount = 4
    /\ towers[1].troops = 9

\* C4: send_troops on a Player or Enemy tower with t >= 2 troops returns
\* s = max(1, t div 2), takes exactly s from the tower, leaves at least one
\* troop and sends exactly one troops_sent notification, with the target
\* and the count s.
C4_SendHalf ==
    \A n \in 1..Len(last.sends) :
        LET d == last.sends[n]
            sent == EventsOfType(d.events, "troops_sent")
        IN  (d.owner_before \in {PLAYER, ENEMY} /\ d.troops_before >= 2) =>
               /\ d.ret = Max(1, d.troops_before \div 2)
               /\ d.troops_after = d.troops_before - d.ret
               /\ d.troops_after >= 1
               /\ d.owner_after = d.owner_before
               /\ Len(sent) = 1
               /\ sent[1].target = d.target
               /\ sent[1].troops_count = d.ret

\* C4 witness: a tower with an odd count has sent the smaller half.
C4_Witness ==
    /\ last.op = "send_troops"
    /\ last.sends[1].troops_before = 49
    /\ last.sends[1].ret = 24
    /\ towers[1].troops = 25

\* C5: send_troops on a Neutral tower, or on a tower with 0 or 1 troops,
\* returns 0, leaves troop count and owner as they were, sends no
\* troops_sent notification and raises nothing.
C5_SendNothing ==
    \A n \in 1..Len(last.sends) :
        LET d == last.sends[n]
        IN  (d.owner_before = NEUTRAL \/ d.troops_before <= 1) =>
               /\ d.ret = 0
               /\ d.troops_after = d.troops_before
               /\ d.owner_after = d.owner_before
               /\ EventsOfType(d.events, "troops_sent") = << >>
               /\ ~d.raised

\* C5 witness: send_troops was called on a Neutral tower that holds troops.
C5_Witness ==
    /\ last.op = "send_troops"
    /\ last.sends[1].owner_before = NEUTRAL
    /\ last.sends[1].troops_before > 1
    /\ towers[1].troops = last.sends[1].troops_before

\* the attacks of the last step on tower k
AttacksOn(k) == SelectSeq(last.attacks, LAMBDA a : a.tower = k)

\* the identities of the troops of a list
TroopIds(list) == {list[n].id : n \in 1..Len(list)}

\* the count of the troop with the given identity; 0 when it is not on the
\* list
CountOf(list, id) ==
    IF id \in TroopIds(list)
    THEN list[CHOOSE n \in 1..Len(list) : list[n].id = id].count
    ELSE 0

RECURSIVE SumCounts(_)
\* the summed count of a set of troop records
SumCounts(S) ==
    IF S = {} THEN 0
    ELSE LET t == CHOOSE t \in S : TRUE IN t.count + SumCounts(S \ {t})

\* the identities of the troops that fought in the last step
FightIds ==
    {last.fights[n].id1 : n \in 1..Len(last.fights)}
    \cup {last.fights[n].id2 : n \in 1..Len(last.fights)}

\* the troops that arrived at tower k in the last step, of the given owner
ArrivedAt(k, owner) == {t \in last.arrived : t.tower = k /\ t.owner = owner}

\* the steps that keep the towers of the game in place
InPlaySteps == {"update", "click", "pause_game"}

\* C6: while a tower is Neutral its troop count and owner change only
\* through receive_attack: a step of play without an attack on it leaves
\* both as they were (no growth), and no send_troops call on a Neutral
\* tower sends anything.
C6_NeutralOnlyByAttack ==
    [][ /\ \A i \in 1..Len(towers) :
             (/\ towers[i].owner = NEUTRAL
              /\ last'.op \in InPlaySteps
              /\ \A n \in 1..Len(last'.attacks) : last'.attacks[n].tower # i)
             => (/\ towers'[i].troops = towers[i].troops
                 /\ towers'[i].owner = NEUTRAL)
        /\ \A n \in 1..Len(last'.sends) :
             last'.sends[n].owner_before = NEUTRAL
             => (last'.sends[n].ret = 0
                 /\ last'.sends[n].troops_after = last'.sends[n].troops_before)
      ]_vars

\* C6 witness: a tick has run the growth check on a Neutral tower below the
\* cap that received no attack, and a Player tower grew in the same tick.
C6_Witness ==
    /\ last.op = "update"
    /\ last.arg.ran
    /\ \E i \in 1..Len(towers) :
          /\ towers[i].owner = NEUTRAL
          /\ towers[i].troops = 1
          /\ towers[i].last_growth_time = now
          /\ AttacksOn(i) = << >>
    /\ \E j \in 1..Len(towers) :
          /\ towers[j].owner = PLAYER
          /\ towers[j].troops = 9
          /\ towers[j].last_growth_time = now

\* C7: combat between two troops of different owners with counts a and b
\* leaves the first with a - b and eliminates the second when a > b,
\* leaves the second with b - a and eliminates the first when b > a, and
\* eliminates both when a = b; troops of the same owner do not fight and
\* keep their counts.
C7_TroopCombat ==
    /\ last.op = "combat_with" =>
          LET a == last.arg.troop1.count
              b == last.arg.troop2.count
              left1 == CountOf(troops, last.arg.troop1.id)
              left2 == CountOf(troops, last.arg.troop2.id)
          IN  IF last.arg.troop1.owner = last.arg.troop2.owner
              THEN left1 = a /\ left2 = b /\ last.fights = << >>
              ELSE /\ a > b => left1 = a - b /\ left2 = 0
                   /\ b > a => left1 = 0 /\ left2 = b - a
                   /\ a = b => left1 = 0 /\ left2 = 0
    /\ last.op = "handle_troop_combat" =>
          /\ \A n \in 1..Len(last.fights) :
                LET f == last.fights[n]
                IN  /\ f.owner1 # f.owner2
                    /\ f.count1 > f.count2 =>
                          /\ CountOf(troops, f.id1) = f.count1 - f.count2
                          /\ CountOf(troops, f.id2) = 0
                    /\ f.count2 > f.count1 =>
                          /\ CountOf(troops, f.id1) = 0
                          /\ CountOf(troops, f.id2) = f.count2 - f.count1
                    /\ f.count1 = f.count2 =>
                          /\ CountOf(troops, f.id1) = 0
                          /\ CountOf(troops, f.id2) = 0
          /\ \A n \in 1..Len(last.arg.before) :
                LET t == last.arg.before[n]
                IN  t.id \notin FightIds => CountOf(troops, t.id) = t.count

\* C7 witness: the combat pass has made a larger troop beat a smaller one.
C7_Witness ==
    /\ last.op = "handle_troop_combat"
    /\ \E n \in 1..Len(last.fights) :
          /\ last.fights[n].count1 = 3
          /\ last.fights[n].count2 = 1
          /\ CountOf(troops, last.fights[n].id1) = 2
          /\ CountOf(troops, last.fights[n].id2) = 0

\* C8: the troops arriving at a tower in one tick are summed per owner
\* before the tower is touched.  When Player and Enemy troops arrive
\* together, the larger total is applied as one receive_attack of the
\* difference and equal totals apply nothing; when one owner's troops
\* arrive, their sum is applied as one receive_attack.  A tower without
\* arrivals receives nothing, and every arrived Player or Enemy troop is
\* off the troop list.
C8_ArrivalsAggregated ==
    last.op = "update" =>
       /\ \A k \in 1..Len(towers) :
             LET p == SumCounts(ArrivedAt(k, PLAYER))
                 e == SumCounts(ArrivedAt(k, ENEMY))
                 hits == AttacksOn(k)
             IN  IF p > 0 /\ e > 0
                 THEN IF p = e THEN hits = << >>
                      ELSE /\ Len(hits) = 1
                           /\ hits[1].amount = Abs(p - e)
                           /\ hits[1].attacker = IF p > e THEN PLAYER ELSE ENEMY
                 ELSE IF p + e > 0
                 THEN /\ Len(hits) = 1
                      /\ hits[1].amount = p + e
                      /\ hits[1].attacker = IF p > 0 THEN PLAYER ELSE ENEMY
                 ELSE hits = << >>
       /\ \A t \in last.arrived :
             t.owner \in {PLAYER, ENEMY} => t.id \notin TroopIds(troops)

\* C8 witness: Player and Enemy troops arrived at one tower in the same
\* tick with different totals, and the tower received the difference.
C8_Witness ==
    /\ last.op = "update"
    /\ \E k \in 1..Len(towers) :
          /\ ArrivedAt(k, PLAYER) # {}
          /\ ArrivedAt(k, ENEMY) # {}
          /\ SumCounts(ArrivedAt(k, PLAYER)) # SumCounts(ArrivedAt(k, ENEMY))
          /\ Len(AttacksOn(k)) = 1

\* what C9 asks of a troop that arrived at a tower in the last step: it is
\* counted in the arrivals of that tower, it is off the troop list and it
\* is in none of the step's combats
CreditedNotFought(t) ==
    /\ t.id \notin FightIds
    /\ t.id \notin TroopIds(troops)
    /\ \E n \in 1..Len(last.arrivals) :
          /\ last.arrivals[n].tower = t.tower
          /\ (IF t.owner = PLAYER THEN last.arrivals[n].player
              ELSE IF t.owner = ENEMY THEN last.arrivals[n].enemy
              ELSE last.arrivals[n].neutral) >= t.count
    /\ \/ AttacksOn(t.tower) # << >>
       \/ SumCounts(ArrivedAt(t.tower, PLAYER)) = SumCounts(ArrivedAt(t.tower, ENEMY))

\* C9: in one tick the arrivals are resolved before the troops fight: every
\* troop in flight whose move in the tick takes it to its target tower is
\* among the tick's arrivals at that tower, is credited to the tower, is
\* taken off the troop list and is in none of the tick's combats.
C9_ArrivalsBeforeCombat ==
    [][ (last'.op = "update" /\ last'.arg.ran) =>
           /\ \A t \in last'.arrived : CreditedNotFought(t)'
           /\ \A n \in 1..Len(troops) :
                 LET m == move(troops[n], last'.arg.dt)
                 IN  (has_reached_target(m) /\ find_target_tower(towers, m) # 0)
                     => \E t \in last'.arrived :
                           /\ t.id = troops[n].id
                           /\ t.tower = find_target_tower(towers, m)
                           /\ t.count = troops[n].count
      ]_vars

\* C9 witness: a troop arrived at a tower in a tick in which a troop of the
\* other side was within collision distance of it; it was credited to the
\* tower and did not fight.
C9_Witness ==
    /\ last.op = "update"
    /\ \E t \in last.arrived :
          /\ \E n \in 1..Len(troops) : in_collision(troops[n], t)
          /\ t.id \notin FightIds
          /\ AttacksOn(t.tower) # << >>

\* C10: a win check made while the game is Playing sets the winner to
\* Player and the state to LevelComplete when Player owns a tower and Enemy
\* owns none, sets the winner to Enemy and the state to GameOver when Enemy
\* owns a tower and Player owns none, and leaves the game Playing without a
\* winner while both own a tower.
C10_WinDetection ==
    \A n \in 1..Len(last.checks) :
        LET k == last.checks[n]
        IN  k.state_before = PLAYING =>
               /\ (k.player_towers > 0 /\ k.enemy_towers = 0)
                  => (k.winner_after = PLAYER /\ k.state_after = LEVEL_COMPLETE)
               /\ (k.enemy_towers > 0 /\ k.player_towers = 0)
                  => (k.winner_after = ENEMY /\ k.state_after = GAME_OVER)
               /\ (k.player_towers > 0 /\ k.enemy_towers > 0)
                  => (k.winner_after = NoWinner /\ k.state_after = PLAYING)

\* the win check behaves as C10 says whenever the game_ended flag is clear
\* when it starts
WinDetectionWhenNotEnded ==
    \A n \in 1..Len(last.checks) :
        LET k == last.checks[n]
        IN  (k.state_before = PLAYING /\ ~k.latch_before) =>
               /\ (k.player_towers > 0 /\ k.enemy_towers = 0)
                  => (k.winner_after = PLAYER /\ k.state_after = LEVEL_COMPLETE)
               /\ (k.enemy_towers > 0 /\ k.player_towers = 0)
                  => (k.winner_after = ENEMY /\ k.state_after = GAME_OVER)
               /\ (k.player_towers > 0 /\ k.enemy_towers > 0)
                  => (k.winner_after = NoWinner /\ k.state_after = PLAYING)

\* the win notifications in a notification list
WinEvents(events) ==
    SelectSeq(events, LAMBDA e : e.type \in {"level_complete", "game_over"})

\* C11: the win event fires at most once per game instance: no step sends
\* more than one level_complete or game_over notification, a step sends
\* one only when the game_ended flag was clear and sets the flag, and the
\* flag is cleared by nothing but a restart.
C11_WinFiresOnce ==
    [][ /\ Len(WinEvents(last'.events)) <= 1
        /\ Len(WinEvents(last'.events)) = 1 => (~game_ended /\ game_ended')
        /\ (game_ended /\ ~game_ended')
           => \E n \in 1..Len(last'.events) : last'.events[n].type = "game_restarted"
      ]_vars

\* C11 witness: a tick in which the win notification was sent by the check
\* made from the capture callback and the check at the end of the tick ran
\* again without sending another.
C11_Witness ==
    /\ last.op = "update"
    /\ Len(WinEvents(last.events)) = 1
    /\ Len(last.checks) >= 2
    /\ last.checks[1].evaluated
    /\ ~last.checks[Len(last.checks)].evaluated
    /\ game_ended

\* the notifications that announce a new game instance
NewInstanceEvents(events) ==
    SelectSeq(events, LAMBDA e : e.type \in {"game_restarted", "level_started",
                                               "level_changed"})

\* C12: after every operation that starts a new game instance
\* (restart_game, handle_level_complete_input with SPACE,
\* advance_to_next_level) the game is Playing with the game_ended flag
\* clear, so that the next win is detected.
C12_LatchClearInNewInstance ==
    Len(NewInstanceEvents(last.events)) > 0 => (game_state = PLAYING /\ ~game_ended)

\* the part of C12 that restart_game meets: a restart leaves the flag clear
LatchClearAfterRestart ==
    (\E n \in 1..Len(last.events) : last.events[n].type = "game_restarted")
    => (game_state = PLAYING /\ ~game_ended)

\* the transitions C13 lists; w is the winner after the step
ClaimedTransition(from, to, w) ==
    \/ from = PLAYING /\ to = PAUSED
    \/ from = PAUSED /\ to = PLAYING
    \/ from = PLAYING /\ to = LEVEL_COMPLETE /\ w = PLAYER
    \/ from = PLAYING /\ to = GAME_OVER /\ w = ENEMY
    \/ from \in {LEVEL_COMPLETE, GAME_OVER} /\ to = PLAYING

\* what C13 says of pause_game: it toggles Playing and Paused and leaves
\* the other states as they are
PauseStep ==
    last'.op = "pause_game"
    => game_state' = (IF game_state = PLAYING THEN PAUSED
                      ELSE IF game_state = PAUSED THEN PLAYING ELSE game_state)

\* C13 as stated: the state is one of the four and changes only along the
\* listed transitions; pause_game leaves LevelComplete and GameOver
\* unchanged; nothing moves LevelComplete or Paused to GameOver.
C13_AsClaimed ==
    [][ /\ game_state' \in GameState
        /\ game_state' # game_state => ClaimedTransition(game_state, game_state', winner')
        /\ PauseStep
      ]_vars

\* C13: the state is one of the four and changes only along the listed
\* transitions or, from any state, to GameOver by advance_to_next_level on
\* the last level; pause_game leaves LevelComplete and GameOver unchanged.
C13_StateTransitions ==
    [][ /\ game_state' \in GameState
        /\ game_state' # game_state
           => \/ ClaimedTransition(game_state, game_state', winner')
              \/ /\ last'.op = "advance_to_next_level"
                 /\ current_level = max_level
                 /\ game_state' = GAME_OVER
        /\ PauseStep
      ]_vars

\* C13 witness: advance_to_next_level on the last level has moved a Paused
\* or LevelComplete game to GameOver.
C13_Witness ==
    /\ last.op = "advance_to_next_level"
    /\ last.arg.state \in {PAUSED, LEVEL_COMPLETE}
    /\ game_state = GAME_OVER

\* pause_game was called on the level-complete or game-over screen
PausedOnEndScreen ==
    last.op = "pause_game" /\ game_state \in {LEVEL_COMPLETE, GAME_OVER}

\* C14: update(dt) called while the state is Paused, LevelComplete or
\* GameOver changes nothing: towers (owner, troops, growth clock,
\* selection), troops, spawn queue, AI timestamp, winner, state and level
\* are as before and nothing is notified.
C14_UpdateOnlyWhenPlaying ==
    [][ (last'.op = "update" /\ game_state # PLAYING)
        => /\ UNCHANGED << game_state, towers, troops, spawn_queue, selected_tower,
                           winner, game_ended, current_level, levels_completed,
                           last_action_time, difficulty, next_id, crashed >>
           /\ last'.events = << >>
           /\ last'.checks = << >>
      ]_vars

\* C14 witness: update ran in a Paused game with troops in flight or waiting
\* in the queue, a tower that can grow and the AI gate open.
C14_Witness ==
    /\ last.op = "update"
    /\ ~last.arg.ran
    /\ game_state = PAUSED
    /\ Len(troops) + Len(spawn_queue) > 0
    /\ \E i \in 1..Len(towers) :
          can_grow(towers[i]) /\ now - towers[i].last_growth_time >= 1000
    /\ should_take_action([last_action_time |-> last_action_time], now)

\* the units enqueued so far from one origin for one owner
UnitsSent(x, owner) ==
    SumSeq([n \in 1..Len(last.sends) |->
               IF last.sends[n].x = x /\ last.sends[n].owner = owner
               THEN last.sends[n].count ELSE 0])

\* the troops created so far from one origin for one owner
TroopsCreated(x, owner) ==
    Cardinality({n \in 1..Len(troops) : troops[n].x = x /\ troops[n].owner = owner})

\* the entries still queued from one origin for one owner
UnitsQueued(x, owner) ==
    Cardinality({n \in 1..Len(spawn_queue) :
                    spawn_queue[n].x = x /\ spawn_queue[n].owner = owner})

\* every unit sent is either still queued or one single-unit troop
QueueExact ==
    /\ \A x \in QueueSources, owner \in {PLAYER, ENEMY} :
          TroopsCreated(x, owner) + UnitsQueued(x, owner) = UnitsSent(x, owner)
    /\ \A n \in 1..Len(troops) : troops[n].count = 1 /\ troops[n].target_x = QueueTarget
    /\ \A n, m \in 1..Len(troops) : troops[n].id = troops[m].id => n = m

\* the entries of the queue that are due at time t
DueAt(t) == {n \in 1..Len(spawn_queue) : spawn_queue[n].spawn_time <= t}

\* a frame releases every due entry up to three
ReleasesDue ==
    last'.op = "process_spawn_queue"
    => Len(troops') - Len(troops) = Min(3, Cardinality(DueAt(now')))

QueueDrained ==
    /\ spawn_queue = << >>
    /\ Len(troops) = SumSeq([n \in 1..Len(last.sends) |-> last.sends[n].count])

\* C15: draining the dispatch queue is exact.  Of the units enqueued by the
\* sends, each is at every moment either still queued or exactly one
\* single-unit troop (none lost, none duplicated); a frame releases the due
\* entries, up to the limit of three; and with the game ticking on, in
\* frames of 100 ms or of 1000 ms, the queue ends up empty with exactly as
\* many troops as units were sent.
C15_DrainExact ==
    /\ []QueueExact
    /\ [][ReleasesDue]_vars
    /\ <>[]QueueDrained

\* C15 witness: two sends, one of them of more than three units, have been
\* drained to the last unit.
C15_Witness ==
    /\ Len(last.sends) = 2
    /\ \E n \in 1..2 : last.sends[n].count > 3
    /\ QueueDrained
    /\ last.op = "process_spawn_queue"

\* C16: one run of _process_spawn_queue releases at most 3 entries, only
\* entries whose scheduled time is at or before the current time, from the
\* head of the queue in non-decreasing order of scheduled time; each
\* released entry is removed from the queue and becomes one troop of count 1
\* with the entry's owner, origin and destination.
C16_ReleaseStep ==
    [][ last'.op = "process_spawn_queue"
        => LET k == Len(troops') - Len(troops)
           IN  /\ k \in 0..3
               /\ k <= Len(spawn_queue)
               /\ SubSeq(troops', 1, Len(troops)) = troops
               /\ spawn_queue' = SubSeq(spawn_queue, k + 1, Len(spawn_queue))
               /\ \A j \in 1..k :
                     /\ spawn_queue[j].spawn_time <= now'
                     /\ j < k => spawn_queue[j].spawn_time <= spawn_queue[j + 1].spawn_time
                     /\ troops'[Len(troops) + j].count = 1
                     /\ troops'[Len(troops) + j].owner = spawn_queue[j].owner
                     /\ troops'[Len(troops) + j].x = spawn_queue[j].x
                     /\ troops'[Len(troops) + j].target_x = spawn_queue[j].target_x
      ]_vars

\* C16 witness: a frame released three entries and left a due entry of
\* another owner in the queue.
C16_Witness ==
    /\ last.op = "process_spawn_queue"
    /\ Len(troops) >= 3
    /\ \E n \in DueAt(now) : \E m \in Len(troops) - 2..Len(troops) :
          spawn_queue[n].owner # troops[m].owner
    /\ \A n \in Len(troops) - 2..Len(troops) : troops[n].id >= next_id - 3

\* the send_troops calls of a step that sent troops
SuccessfulSends(sends) == SelectSeq(sends, LAMBDA e : e.ret > 0)

\* C17: the AI rate limiter.  In a tick that runs less than action_interval
\* after the last-action timestamp the AI sends from no tower and the
\* timestamp stays; a tick moves the timestamp only when a send_troops call
\* of the AI returned troops, and then to the time of the tick, so two
\* successful AI actions are at least action_interval apart; a tick in
\* which the gate was open and nothing was sent leaves the timestamp, and
\* with it the open gate, as it was.
C17_RateLimiter ==
    [][ (last'.op = "update" /\ last'.arg.ran)
        => /\ now' - last_action_time < action_interval
              => (last'.sends = << >> /\ last_action_time' = last_action_time)
           /\ last_action_time' # last_action_time
              => (SuccessfulSends(last'.sends) # << >> /\ last_action_time' = now')
           /\ SuccessfulSends(last'.sends) # << >>
              => /\ now' - last_action_time >= action_interval
                 /\ last_action_time' = now'
           /\ SuccessfulSends(last'.sends) = << >>
              => last_action_time' = last_action_time
      ]_vars

\* C17 witness: a tick less than action_interval after a successful AI
\* action, in which an Enemy tower could send and a target stood, and the AI
\* sent nothing.
C17_Witness ==
    /\ last.op = "update"
    /\ last.arg.ran
    /\ last_action_time > StartTime
    /\ now - last_action_time \in 1..(action_interval - 1)
    /\ last.sends = << >>
    /\ \E i, j \in 1..Len(towers) :
          /\ towers[i].owner = ENEMY
          /\ can_send_troops(towers[i])
          /\ towers[j].owner # ENEMY
    /\ game_state = PLAYING

\* a tick with the gate open in which the AI called send_troops and got
\* nothing: the gate is still open
GateLeftOpen ==
    /\ last.op = "update"
    /\ last.arg.ran
    /\ last.sends # << >>
    /\ SuccessfulSends(last.sends) = << >>
    /\ towers_of(towers, {ENEMY}) # << >>
    /\ should_take_action([last_action_time |-> last_action_time], now)
    /\ game_state = PLAYING

\* the troops the AI's successful sends of a step took from tower i for
\* tower j
Dispatched(sends, i, j) ==
    SumSeq([n \in 1..Len(sends) |->
               IF sends[n].tower = i /\ sends[n].target = j THEN sends[n].ret ELSE 0])

\* the Enemy entries of a queue from position x to position target_x
EnemyEntries(queue, x, target_x) ==
    Cardinality({n \in 1..Len(queue) :
                    /\ queue[n].x = x
                    /\ queue[n].target_x = target_x
                    /\ queue[n].owner = ENEMY})

\* the troops the AI took from the towers in a tick are in the queue: the
\* queue has lost the entries released at the start of the tick and gained
\* one Enemy entry for every troop sent, from its source to its target
DispatchEnqueued ==
    /\ Len(spawn_queue') = Len(spawn_queue) - (next_id' - next_id)
                           + SumSeq([n \in 1..Len(last'.sends) |-> last'.sends[n].ret])
    /\ \A i, j \in 1..Len(towers) :
          EnemyEntries(spawn_queue', towers[i].x, towers[j].x)
              >= Dispatched(last'.sends, i, j)

\* C18: every troop the AI takes from an Enemy tower in a tick becomes a
\* queue entry in that tick, for single-source and multi-source actions
\* alike, and the tick completes.
C18_AIDispatchEnqueued ==
    [][ (last'.op = "update" /\ last'.arg.ran)
        => (~crashed' /\ DispatchEnqueued)
      ]_vars

\* the part of C18 the code meets: in a tick that completes, which is a
\* tick whose AI result is the single-tower dict or None, the troops sent
\* are enqueued
CompletedTickEnqueued ==
    [][ (last'.op = "update" /\ last'.arg.ran /\ ~crashed') => DispatchEnqueued ]_vars

\* a single-tower action has sent troops and they are in the queue
SingleSourceEnqueued ==
    /\ last.op = "update"
    /\ ~crashed
    /\ Len(SuccessfulSends(last.sends)) = 1
    /\ EnemyEntries(spawn_queue, towers[last.sends[1].tower].x,
                    towers[last.sends[1].target].x) >= last.sends[1].ret

\* a multi-tower action has sent troops from two towers and the tick broke
\* off with nothing enqueued
MultiSourceLost ==
    /\ last.op = "update"
    /\ crashed
    /\ Len(SuccessfulSends(last.sends)) >= 2
    /\ spawn_queue = << >>

\* C20: every send_troops call the AI makes in a tick is made on a tower
\* that is Enemy-owned with troops > 0, for a target, another tower, that is
\* owned by Player or Neutral.
C20_AISourcesAndTargets ==
    [][ (last'.op = "update" /\ last'.arg.ran)
        => \A n \in 1..Len(last'.sends) :
              /\ last'.sends[n].owner_before = ENEMY
              /\ last'.sends[n].troops_before > 0
              /\ last'.sends[n].target \in 1..Len(towers')
              /\ last'.sends[n].target # last'.sends[n].tower
              /\ towers'[last'.sends[n].target].owner \in {PLAYER, NEUTRAL}
      ]_vars

\* C20 witness: in one tick the AI sent from two Enemy towers to a Player
\* tower; in another state it sends to a Neutral one.
C20_Witness ==
    /\ last.op = "update"
    /\ Len(SuccessfulSends(last.sends)) >= 2
    /\ last.sends[1].tower # last.sends[2].tower
    /\ towers[last.sends[1].target].owner = PLAYER

\* the AI sent to a Neutral tower
AISentToNeutral ==
    /\ last.op = "update"
    /\ SuccessfulSends(last.sends) # << >>
    /\ towers[last.sends[1].target].owner = NEUTRAL

AggressiveFallback ==
    /\ last.op = "decide_action"
    /\ last.arg.strategy = "aggressive"
    /\ last.arg.proposal.kind = "single"
    /\ distance_to(towers, last.arg.proposal.source, last.arg.proposal.target) > 400

\* the click of a step selected nothing and sent nothing
NothingSelected ==
    /\ selected_tower' = 0
    /\ towers' = towers
    /\ last'.sends = << >>
    /\ spawn_queue' = spawn_queue

\* the click of a step called send_troops on tower s for tower i, queued
\* what was sent as Player units from s to i, and cleared the selection
SendTriggered(s, i) ==
    /\ Len(last'.sends) = 1
    /\ last'.sends[1].tower = s
    /\ last'.sends[1].target = i
    /\ Len(spawn_queue') = Len(spawn_queue) + last'.sends[1].ret
    /\ EnemyEntries(spawn_queue', towers[s].x, towers[i].x)
       = EnemyEntries(spawn_queue, towers[s].x, towers[i].x)
    /\ selected_tower' = 0
    /\ \A k \in 1..Len(towers') : ~towers'[k].selected

\* a click on tower i with no tower selected
ClickSelects(i) ==
    IF towers[i].owner = PLAYER /\ can_send_troops(towers[i])
    THEN /\ selected_tower' = i
         /\ towers' = [towers EXCEPT ![i].selected = TRUE]
         /\ last'.sends = << >>
         /\ spawn_queue' = spawn_queue
    ELSE NothingSelected

\* C21 as stated: with no tower selected a click selects a Player tower that
\* can send and nothing else; with a tower selected a click on a different
\* tower sends from the selected tower to the clicked one, whoever owns it,
\* and clears the selection.
C21_AsClaimed ==
    [][ (last'.op = "click" /\ last'.arg.tower # 0 /\ game_state = PLAYING)
        => IF selected_tower = 0 THEN ClickSelects(last'.arg.tower)
           ELSE last'.arg.tower # selected_tower
                => SendTriggered(selected_tower, last'.arg.tower)
      ]_vars

\* C21: as stated, but the send happens only when the selected tower is
\* still the Player's; a selected tower the Enemy has captured meanwhile
\* sends nothing and the click only clears the selection.
C21_ClickInteraction ==
    [][ (last'.op = "click" /\ last'.arg.tower # 0 /\ game_state = PLAYING)
        => IF selected_tower = 0 THEN ClickSelects(last'.arg.tower)
           ELSE last'.arg.tower # selected_tower
                => IF towers[selected_tower].owner = PLAYER
                   THEN SendTriggered(selected_tower, last'.arg.tower)
                   ELSE /\ last'.sends = << >>
                        /\ spawn_queue' = spawn_queue
                        /\ selected_tower' = 0
                        /\ \A k \in 1..Len(towers') : ~towers'[k].selected
      ]_vars

\* a tower is selected that the Enemy owns
SelectedTowerCaptured ==
    selected_tower # 0 /\ towers[selected_tower].owner = ENEMY /\ game_state = PLAYING

\* C21 witness: with a Player tower selected, a click on an Enemy tower
\* sent troops there and cleared the selection.
C21_Witness ==
    /\ last.op = "click"
    /\ Len(last.sends) = 1
    /\ last.sends[1].ret > 0
    /\ last.sends[1].owner_before = PLAYER
    /\ towers[last.sends[1].target].owner = ENEMY
    /\ selected_tower = 0
    /\ spawn_queue # << >>

\* a tower is selected that the Enemy has captured, in a game whose
\* game_ended flag is clear
SelectedTowerCapturedCleanly ==
    SelectedTowerCaptured /\ ~game_ended /\ owner_count(towers, PLAYER) > 0

\* C22: after the towers of a level are created, the numbers of Player,
\* Enemy and Neutral towers equal the level configuration's player_towers,
\* enemy_towers and neutral_towers, every Player tower has initial_troops
\* and every Enemy tower has enemy_initial_troops.
C22_TowersMatchConfig ==
    last.op = "create_initial_towers_for_level"
    => LET level_config == get_current_level_config(last.arg.level)
       IN  /\ owner_count(towers, PLAYER) = level_config.player_towers
           /\ owner_count(towers, ENEMY) = level_config.enemy_towers
           /\ owner_count(towers, NEUTRAL) = level_config.neutral_towers
           /\ \A i \in 1..Len(towers) :
                 /\ towers[i].owner = PLAYER
                    => towers[i].troops = level_config.initial_troops
                 /\ towers[i].owner = ENEMY
                    => towers[i].troops = level_config.enemy_initial_troops

\* what the creation does establish: the troops are the configured ones,
\* the Neutral towers are as many as configured, and the Player and the
\* Enemy get as many towers as configured but never more than the two slots
\* each side has
TowersMatchConfigUpToSlots ==
    last.op = "create_initial_towers_for_level"
    => LET level_config == get_current_level_config(last.arg.level)
       IN  /\ owner_count(towers, PLAYER)
                = Min(level_config.player_towers, Len(level_positions.player))
           /\ owner_count(towers, ENEMY)
                = Min(level_config.enemy_towers, Len(level_positions.enemy))
           /\ owner_count(towers, NEUTRAL) = level_config.neutral_towers
           /\ \A i \in 1..Len(towers) :
                 /\ towers[i].owner = PLAYER
                    => towers[i].troops = level_config.initial_troops
                 /\ towers[i].owner = ENEMY
                    => towers[i].troops = level_config.enemy_initial_troops
                 /\ towers[i].owner = NEUTRAL => towers[i].troops \in NeutralTroopsSet

\* level 1 has been created: two Player towers where the configuration
\* says three
LevelOneCreated ==
    /\ last.op = "create_initial_towers_for_level"
    /\ last.arg.level = 1
    /\ owner_count(towers, PLAYER) = 2
    /\ get_current_level_config(1).player_towers = 3

\* the towers tw are the ones created for a level: Player and Enemy towers
\* with the level's troops on the slots the level uses
TowersOfLevel(tw, level) ==
    LET level_config == get_current_level_config(level)
    IN  /\ owner_count(tw, PLAYER)
             = Min(level_config.player_towers, Len(calculate_tower_positions.player))
        /\ owner_count(tw, ENEMY)
             = Min(level_config.enemy_towers, Len(calculate_tower_positions.enemy))
        /\ \A i \in 1..Len(tw) :
              /\ tw[i].owner = PLAYER => tw[i].troops = level_config.initial_troops
              /\ tw[i].owner = ENEMY => tw[i].troops = level_config.enemy_initial_troops

\* a step that continues play after the Player has won level n below the
\* last level: from LevelComplete to Playing by the SPACE key of the
\* level-complete screen, by GameController.advance_to_next_level or by the
\* result screen's next-level command; replaying (R, restart, level select)
\* is not continuing
ContinuesAfterWin ==
    /\ game_state = LEVEL_COMPLETE
    /\ winner = PLAYER
    /\ current_level < max_level
    /\ game_state' = PLAYING
    /\ \/ last'.op = "handle_level_complete_input" /\ last'.arg.key = "space"
       \/ last'.op = "advance_to_next_level"
       \/ last'.op = "start_next_level"

\* the new instance is level n + 1
IsNextLevel ==
    /\ current_level' = current_level + 1
    /\ difficulty' = get_current_level_config(current_level + 1).ai_difficulty
    /\ TowersOfLevel(towers', current_level + 1)

\* C23: when the Player has won level n below the last level and play
\* continues from LevelComplete to Playing, the level manager's current
\* level is n + 1 and the towers and the AI difficulty are those of level
\* n + 1's configuration.
C23_ContinueStartsNextLevel == [][ContinuesAfterWin => IsNextLevel]_vars

\* the result screen's next-level command (main.py start_next_level) does
\* start level n + 1
StartNextLevelAdvances ==
    [][(ContinuesAfterWin /\ last'.op = "start_next_level") => IsNextLevel]_vars

\* the other two ways to continue start level n again
ContinueInControllerRepeatsLevel ==
    [][(ContinuesAfterWin /\ last'.op # "start_next_level")
          => /\ current_level' = current_level
             /\ difficulty' = get_current_level_config(current_level).ai_difficulty
             /\ TowersOfLevel(towers', current_level)]_vars

\* play has continued with SPACE after a Player win on level 1 and the
\* level manager is still on level 1
ContinuedOnSameLevel ==
    /\ last.op = "handle_level_complete_input"
    /\ last.arg.key = "space"
    /\ game_state = PLAYING
    /\ current_level = 1
    /\ 1 \in levels_completed
    /\ TowersOfLevel(towers, 1)

\* the next-level command has started level 2 with level 1 completed
ContinuedOnNextLevel ==
    /\ last.op = "start_next_level"
    /\ game_state = PLAYING
    /\ current_level = 2
    /\ 1 \in levels_completed
    /\ TowersOfLevel(towers, 2)

\* the step in which the Enemy is made the winner
EnemyWins == winner # ENEMY /\ winner' = ENEMY

\* C24: the step in which the Enemy wins sets the state to GameOver, sends
\* exactly one game_over notification (and no other win notification) and
\* resets the level manager to level 1 with no completed level; a restart
\* from that GameOver starts level 1.
C24_EnemyWinResets ==
    [][ /\ EnemyWins
           => /\ game_state' = GAME_OVER
              /\ Len(EventsOfType(last'.events, "game_over")) = 1
              /\ Len(WinEvents(last'.events)) = 1
              /\ current_level' = 1
              /\ levels_completed' = {}
        /\ (game_state = GAME_OVER /\ winner = ENEMY /\ last'.op = "restart_game")
           => /\ game_state' = PLAYING
              /\ current_level' = 1
              /\ current_level = 1
              /\ levels_completed' = {}
              /\ difficulty' = get_current_level_config(1).ai_difficulty
              /\ TowersOfLevel(towers', 1)
      ]_vars

\* C24 witness: the Enemy has won a game played on the last level (the AI
\* still has that level's difficulty): GameOver, one game_over
\* notification, the level manager back on level 1 with nothing completed.
C24_Witness ==
    /\ last.op = "update"
    /\ game_state = GAME_OVER
    /\ winner = ENEMY
    /\ Len(EventsOfType(last.events, "game_over")) = 1
    /\ difficulty = get_current_level_config(max_level).ai_difficulty
    /\ current_level = 1
    /\ levels_completed = {}

\* a restart from GameOver has started level 1
RestartedAfterDefeat ==
    /\ last.op = "restart_game"
    /\ \E n \in 1..Len(last.events) :
          /\ last.events[n].type = "game_state_changed"
          /\ last.events[n].old_state = GAME_OVER
    /\ current_level = 1
    /\ TowersOfLevel(towers, 1)

\* C25: the level manager's current level is always within 1..max_level;
\* set_level with a level that has no configuration leaves the current
\* level unchanged (and a configured level becomes the current level),
\* advance_to_next_level on the last level changes nothing and returns
\* false (and below the last level adds one and returns true), and
\* complete_current_level returns true exactly when the current level is
\* below max_level and does not change the current level.
C25_LevelWithinRange ==
    /\ current_level \in 1..max_level
    /\ last.op = "set_level"
       => current_level = IF last.arg.level \in 1..max_level THEN last.arg.level
                          ELSE last.arg.before
    /\ last.op = "level_advance_to_next_level"
       => /\ last.arg.ret = (last.arg.before < max_level)
          /\ current_level = IF last.arg.before < max_level THEN last.arg.before + 1
                             ELSE last.arg.before
    /\ last.op = "complete_current_level"
       => /\ last.arg.ret = (last.arg.before < max_level)
          /\ current_level = last.arg.before
          /\ last.arg.before \in levels_completed
    /\ last.op = "reset_to_level_1" => (current_level = 1 /\ levels_completed = {})

\* an advance on the last level leaves the level manager as it was
AdvanceAtLastLevelChangesNothing ==
    [][(last'.op = "level_advance_to_next_level" /\ current_level = max_level)
          => (current_level' = current_level /\ levels_completed' = levels_completed
              /\ ~last'.arg.ret)]_vars

\* C25 witness: advance_to_next_level was called on the last level and
\* returned false.
C25_Witness ==
    /\ last.op = "level_advance_to_next_level"
    /\ last.arg.before = max_level
    /\ ~last.arg.ret
    /\ current_level = max_level

\* set_level was called with a level that has no configuration, on a level
\* other than the first
InvalidLevelRejected ==
    /\ last.op = "set_level"
    /\ last.arg.level \notin 1..max_level
    /\ last.arg.before = 2
    /\ current_level = 2

\* C26: invalid construction is rejected, not clamped: Tower() raises
\* exactly when the troop count is negative or the owner is not an
\* OwnerType value and then no tower exists, Troop() raises exactly when
\* the count is <= 0 or the owner is not an OwnerType value and then no
\* troop exists, and assigning an owner that is not an OwnerType value
\* raises and leaves the tower's owner as it was.
C26_InvalidRejected ==
    [][ /\ last'.op = "Tower"
           => /\ last'.arg.raised
                   = (last'.arg.troops < 0 \/ last'.arg.owner \notin OwnerType)
              /\ last'.arg.raised => towers' = towers
              /\ ~last'.arg.raised
                 => /\ Len(towers') = Len(towers) + 1
                    /\ SubSeq(towers', 1, Len(towers)) = towers
                    /\ towers'[Len(towers')].owner = last'.arg.owner
                    /\ towers'[Len(towers')].troops = last'.arg.troops
        /\ last'.op = "Troop"
           => /\ last'.arg.raised
                   = (last'.arg.count <= 0 \/ last'.arg.owner \notin OwnerType)
              /\ last'.arg.raised => troops' = troops
              /\ ~last'.arg.raised
                 => /\ Len(troops') = Len(troops) + 1
                    /\ SubSeq(troops', 1, Len(troops)) = troops
                    /\ troops'[Len(troops')].owner = last'.arg.owner
                    /\ troops'[Len(troops')].count = last'.arg.count
        /\ last'.op = "owner_setter"
           => /\ last'.arg.raised = (last'.arg.value \notin OwnerType)
              /\ last'.arg.raised => (towers' = towers /\ last'.events = << >>)
              /\ ~last'.arg.raised
                 => towers' = [towers EXCEPT ![1].owner = last'.arg.value]
        /\ \A i \in 1..Len(towers') :
              towers'[i].owner \in OwnerType /\ towers'[i].troops >= 0
        /\ \A i \in 1..Len(troops') :
              troops'[i].owner \in OwnerType /\ troops'[i].count > 0
      ]_vars

\* C26 witness: an Enemy tower was assigned an owner that is no OwnerType
\* value; the assignment raised and the tower is still the Enemy's.
C26_Witness ==
    /\ last.op = "owner_setter"
    /\ last.arg.value \notin OwnerType
    /\ last.arg.raised
    /\ last.arg.before = ENEMY
    /\ towers[1].owner = ENEMY

\* Tower() with a negative troop count and a valid owner raised
NegativeTowerRejected ==
    /\ last.op = "Tower"
    /\ last.arg.troops < 0
    /\ last.arg.owner \in OwnerType
    /\ last.arg.raised
    /\ \A i \in 1..Len(towers) : towers[i].troops >= 0

\* Troop() with count 0 and a valid owner raised
EmptyTroopRejected ==
    /\ last.op = "Troop"
    /\ last.arg.count = 0
    /\ last.arg.owner \in OwnerType
    /\ last.arg.raised
    /\ troops = << >>

\* the fights of the last step that the troop with the given identity took
\* part in
FightsOf(id) ==
    {n \in 1..Len(last.fights) : last.fights[n].id1 = id \/ last.fights[n].id2 = id}

\* C27: within one call of the troop-vs-troop resolver no troop takes part
\* in more than one combat: every troop is in at most one fight, in which
\* it fights with the count it had before the call, and a troop that did
\* not fight leaves the call as it entered it.
C27_OneCombatPerTroop ==
    last.op = "handle_troop_combat"
    => /\ \A n \in 1..Len(last.fights) : last.fights[n].id1 # last.fights[n].id2
       /\ \A k \in 1..Len(last.arg.before) :
             LET t == last.arg.before[k]
             IN  /\ Cardinality(FightsOf(t.id)) <= 1
                 /\ \A n \in FightsOf(t.id) :
                       /\ last.fights[n].id1 = t.id => last.fights[n].count1 = t.count
                       /\ last.fights[n].id2 = t.id => last.fights[n].count2 = t.count
                 /\ FightsOf(t.id) = {} => CountOf(troops, t.id) = t.count

\* C27 witness: the first troop was within collision range of two enemy
\* troops; it fought the first of them and survived, and the other enemy
\* troop left the call untouched.
C27_Witness ==
    /\ last.op = "handle_troop_combat"
    /\ Len(last.arg.before) = 3
    /\ in_collision(last.arg.before[1], last.arg.before[2])
    /\ in_collision(last.arg.before[1], last.arg.before[3])
    /\ Len(last.fights) = 1
    /\ last.fights[1].id1 = last.arg.before[1].id
    /\ last.fights[1].id2 = last.arg.before[2].id
    /\ last.fights[1].count1 > last.fights[1].count2
    /\ last.arg.before[1].id \in TroopIds(troops)
    /\ CountOf(troops, last.arg.before[3].id) = last.arg.before[3].count

\* the release times scheduled in a queue for an origin tower and an owner
ScheduledTimes(queue, x, owner) ==
    {queue[k].spawn_time : k \in {m \in 1..Len(queue) :
                                     queue[m].x = x /\ queue[m].owner = owner}}

\* the first release time a send must get: the current time, or 50 ms past
\* the latest time pending for the same origin and owner
FirstRelease(pending, current_time) ==
    IF pending = {} THEN current_time
    ELSE (CHOOSE t \in pending : \A u \in pending : u <= t) + 50

\* C28: the release times of a send of N units are 120 ms apart; they start
\* at the current time when no pending entry has the same origin tower and
\* owner, and otherwise 50 ms after the latest time pending for that origin
\* and owner, so every unit of the new send is scheduled after every
\* pending unit of that origin and owner; the queue stays sorted and gains
\* exactly N entries.
C28_ReleaseTimes ==
    [][ last'.op = "create_troop_spawn_queue"
        => LET x == last'.arg.start_x
               owner == last'.arg.owner
               pending == ScheduledTimes(spawn_queue, x, owner)
               added == ScheduledTimes(spawn_queue', x, owner) \ pending
           IN  /\ added = {FirstRelease(pending, now) + i * 120 :
                              i \in 0..(last'.arg.count - 1)}
               /\ Cardinality(added) = last'.arg.count
               /\ Len(spawn_queue') = Len(spawn_queue) + last'.arg.count
               /\ \A t \in added, u \in pending : t > u
               /\ \A k \in 1..(Len(spawn_queue') - 1) :
                     spawn_queue'[k].spawn_time <= spawn_queue'[k + 1].spawn_time
      ]_vars

\* C28 witness: a second send of four units from a tower whose owner's
\* first send still has three units pending: seven times are scheduled,
\* the latest 50 + 3 * 120 ms after the latest of the first send.
C28_Witness ==
    /\ last.op = "create_troop_spawn_queue"
    /\ Len(last.sends) = 2
    /\ last.sends[1] = last.sends[2]
    /\ last.arg.count = 4
    /\ now = StartTime + 100
    /\ ScheduledTimes(spawn_queue, last.arg.start_x, last.arg.owner)
         = {StartTime + 120, StartTime + 240, StartTime + 360,
            StartTime + 410, StartTime + 530, StartTime + 650, StartTime + 770}

\* C29: in one update call a Player or Enemy tower below the cap gains
\* exactly the growth rate (never past the cap) when at least 1000 ms have
\* passed since its last growth check, and otherwise its troops do not
\* change: not before a second has passed, not at the cap, not when
\* Neutral, and never by more than one increment per call.  An increment
\* moves the last growth check to the time of the call and the check never
\* moves otherwise than to the time of a call made a second or more after
\* it, so two increments of a tower are at least a second apart.
C29_TowerGrowth ==
    [][ last'.op = "tower_frame"
        => LET tower == towers[1]
               after == towers'[1]
               due == now' - tower.last_growth_time >= 1000
               grows == due /\ tower.owner \in {PLAYER, ENEMY}
                            /\ tower.troops < TOWER_MAX_TROOPS
           IN  /\ grows => after.troops = Min(tower.troops + TOWER_GROWTH_RATE,
                                              TOWER_MAX_TROOPS)
               /\ ~grows => after.troops = tower.troops
               /\ after.troops <= tower.troops + TOWER_GROWTH_RATE
               /\ after.troops > tower.troops
                  => (now' - tower.last_growth_time >= 1000
                      /\ after.last_growth_time = now')
               /\ after.last_growth_time = IF due THEN now' ELSE tower.last_growth_time
               /\ after.owner = tower.owner
      ]_vars

\* C29 witness: a Player tower whose last growth check was made 1200 ms
\* into the run grows in the call made a full second after that check.
C29_Witness ==
    /\ last.op = "tower_frame"
    /\ towers[1].owner = PLAYER
    /\ now = StartTime + 2200
    /\ towers[1].last_growth_time = now
    /\ last.arg.before.last_growth_time = StartTime + 1200
    /\ towers[1].troops = last.arg.before.troops + TOWER_GROWTH_RATE

\* a tower at the cap was due for a growth check and did not change
CappedTowerUnchanged ==
    /\ last.op = "tower_frame"
    /\ last.arg.before.owner = ENEMY
    /\ last.arg.before.troops = TOWER_MAX_TROOPS
    /\ towers[1].last_growth_time = now
    /\ towers[1].troops = TOWER_MAX_TROOPS

\* the send_troops calls of the last step made on tower i that dispatched
\* troops
DispatchesFrom(i) ==
    {n \in 1..Len(last.sends) : last.sends[n].tower = i /\ last.sends[n].ret > 0}

\* send_troops is called on the sources that can send and on no other, and
\* the reported total is the sum of what the calls dispatched
SkipsAndTotals ==
    /\ \A n \in 1..Len(last.sends) :
          /\ last.sends[n].troops_before > 0
          /\ last.sends[n].owner_before # NEUTRAL
          /\ last.sends[n].target = last.arg.target
    /\ \A k \in 1..Len(last.arg.sources) :
          last.arg.before[last.arg.sources[k]].troops = 0
          => \A n \in 1..Len(last.sends) : last.sends[n].tower # last.arg.sources[k]
    /\ IF SuccessfulSends(last.sends) = << >>
       THEN last.arg.result.kind = "none"
       ELSE /\ last.arg.result.kind = "multi"
            /\ last.arg.result.total_troops
                 = SumSeq([n \in 1..Len(last.sends) |-> last.sends[n].ret])
            /\ Len(last.arg.result.attacks) = Len(SuccessfulSends(last.sends))

\* C30: for any multi-source proposal, also one that lists a tower more
\* than once, execute_action dispatches from each distinct source tower at
\* most once, calls send_troops on no source that cannot send, and reports
\* as total the sum of the dispatched counts.
C30_DispatchOncePerSource ==
    last.op = "execute_action"
    => /\ \A i \in 1..Len(towers) : Cardinality(DispatchesFrom(i)) <= 1
       /\ SkipsAndTotals

\* what execute_action does establish: a proposal that lists no tower
\* twice is dispatched once per source, and every proposal skips the
\* sources that cannot send and reports the sum of the dispatched counts
DispatchOncePerListedSource ==
    last.op = "execute_action"
    => /\ SkipsAndTotals
       /\ \A i \in 1..Len(towers) :
             Cardinality(DispatchesFrom(i))
               <= Cardinality({k \in 1..Len(last.arg.sources) : last.arg.sources[k] = i})
       /\ Len(last.sends) <= Len(last.arg.sources)

\* a tower with 7 troops listed twice has dispatched 3 and then 2, and the
\* reported total is 5
DuplicateSentTwice ==
    /\ last.op = "execute_action"
    /\ Len(last.arg.sources) = 2
    /\ last.arg.sources[1] = last.arg.sources[2]
    /\ last.arg.before[last.arg.sources[1]].troops = 7
    /\ Len(last.sends) = 2
    /\ last.sends[1].ret = 3
    /\ last.sends[2].ret = 2
    /\ last.arg.result.total_troops = 5
    /\ towers[last.arg.sources[1]].troops = 2

\* the four action kinds SmartStrategy.decide_action has a branch for
SmartActionKinds ==
    {"coordinated_assault", "strategic_expansion", "defensive_consolidation",
     "opportunistic_strike"}

\* C31: the Smart strategy can choose each of its four action kinds: for
\* each of coordinated assault, strategic expansion, defensive consolidation
\* and opportunistic strike there is a tower configuration from which
\* _analyze_situation can return that kind to decide_action.
C31_AllKindsPossible ==
    \A kind \in SmartActionKinds :
       \E f \in [1..Len(StrategySlotX) -> OwnerType \X StrategyTroops] :
          LET tw == [i \in 1..Len(StrategySlotX) |->
                        Tower(StrategySlotX[i], f[i][1], f[i][2], StartTime)]
          IN  kind \in analyze_situation(tw, towers_of(tw, {ENEMY}), towers_of(tw, {NEUTRAL}))

\* what decide_action of the Smart strategy can return: a multi-tower
\* proposal of a coordinated assault or a strategic expansion, a
\* single-tower strike, or nothing; never a defensive consolidation
SmartNeverConsolidates ==
    (last.op = "decide_action" /\ last.arg.strategy = "smart")
    => /\ "defensive_consolidation" \notin
             analyze_situation(towers, towers_of(towers, {ENEMY}),
                               towers_of(towers, {NEUTRAL}))
       /\ last.arg.proposal.kind \in {"none", "single", "multi"}
       /\ last.arg.proposal.kind = "multi"
          => last.arg.proposal.type \in {"coordinated_assault", "strategic_expansion"}

\* the Smart strategy has proposed a coordinated assault
SmartAssaultProposed ==
    /\ last.op = "decide_action" /\ last.arg.strategy = "smart"
    /\ last.arg.proposal.kind = "multi"
    /\ last.arg.proposal.type = "coordinated_assault"

\* the Smart strategy has proposed a strategic expansion
SmartExpansionProposed ==
    /\ last.op = "decide_action" /\ last.arg.strategy = "smart"
    /\ last.arg.proposal.kind = "multi"
    /\ last.arg.proposal.type = "strategic_expansion"

\* the Smart strategy has proposed an opportunistic single-tower strike
SmartStrikeProposed ==
    /\ last.op = "decide_action" /\ last.arg.strategy = "smart"
    /\ last.arg.proposal.kind = "single"

\* C32: every troop in the troop list has at least one unit, in every
\* reachable state: troops enter the list with one unit or more, the survivor
\* of a fight keeps the difference of the two counts, which is positive, and
\* a troop left without units is out of the list by the end of the step.
C32_TroopCountsPositive ==
    /\ \A k \in 1..Len(troops) : troops[k].count >= 1
    /\ last.op = "handle_troop_combat"
       => \A n \in 1..Len(last.fights) :
             LET f == last.fights[n]
                 larger == Max(f.count1, f.count2)
                 smaller == Min(f.count1, f.count2)
                 survivor == IF f.count1 > f.count2 THEN f.id1 ELSE f.id2
                 loser == IF f.count1 > f.count2 THEN f.id2 ELSE f.id1
             IN  /\ loser \notin TroopIds(troops)
                 /\ IF larger = smaller
                    THEN survivor \notin TroopIds(troops)
                    ELSE CountOf(troops, survivor) = larger - smaller

\* C32 witness: a fight between troops of unequal counts has left its
\* survivor in the list with the difference of the counts, one unit or more,
\* and the loser is gone.
C32_Witness ==
    /\ last.op = "handle_troop_combat"
    /\ \E n \in 1..Len(last.fights) :
          /\ last.fights[n].count1 > last.fights[n].count2
          /\ CountOf(troops, last.fights[n].id1) = last.fights[n].count1 - last.fights[n].count2
          /\ last.fights[n].id2 \notin TroopIds(troops)

(***************************************************************************)
(* Troops on the march: _update_troops on its own, frame after frame, on a *)
(* board of three towers with troops that have just left one tower for     *)
(* another.                                                                *)
(***************************************************************************)
MarchTroops == 2
MarchDtSet == {200, 1000}
MarchSlotX == <<105, 210, 315>>
MarchBoard == << <<PLAYER, 8>>, <<NEUTRAL, 1>>, <<ENEMY, 6>> >>

\* troops as _process_spawn_queue creates them: one unit, at the tower they
\* leave, bound for another tower
MarchSeeds ==
    {[x |-> MarchSlotX[s], target_x |-> MarchSlotX[t], owner |-> o] :
        s \in 1..Len(MarchSlotX), t \in 1..Len(MarchSlotX), o \in {PLAYER, ENEMY}}

InitMarch ==
    /\ towers = [i \in 1..Len(MarchSlotX) |->
                    Tower(MarchSlotX[i], MarchBoard[i][1], MarchBoard[i][2], StartTime)]
    /\ \E n \in 1..MarchTroops :
          \E f \in [1..n -> {m \in MarchSeeds : m.x # m.target_x}] :
             troops = [i \in 1..n |-> Troop(i, f[i].x, f[i].target_x, f[i].owner, 1)]
    /\ spawn_queue = << >>
    /\ game_state = PLAYING
    /\ selected_tower = 0
    /\ winner = NoWinner
    /\ game_ended = FALSE
    /\ current_level = 1
    /\ levels_completed = {}
    /\ last_action_time = StartTime
    /\ difficulty = get_current_level_config(1).ai_difficulty
    /\ now = StartTime
    /\ next_id = MarchTroops + 1
    /\ crashed = FALSE
    /\ inputs = 0
    /\ last = NoStep

\* a frame of the main loop while troops are on the march: the clock
\* advances by dt
Frame(dt) ==
    /\ game_state = PLAYING
    /\ troops # << >>
    /\ now' = now + dt

\* self._update_troops(dt), called by update in a frame while the game is
\* Playing
UpdateTroops(dt) ==
    /\ Frame(dt)
    /\ UNCHANGED inputs
    /\ \E c \in {update_troops(Self, dt)} :
          Commit(c, "update_troops", [dt |-> dt, before |-> troops])

NextMarch == \E dt \in MarchDtSet : UpdateTroops(dt)

SpecMarch == InitMarch /\ [][NextMarch]_vars

\* the main loop runs a frame after every frame (main.py:224-233), so while
\* the game is Playing the clock keeps advancing and _update_troops is
\* called again and again
SpecMarchFair == SpecMarch /\ WF_now(\E dt \in MarchDtSet : Frame(dt))

\* one call of _update_troops: a troop still on the list is strictly closer
\* to its target than before and has not reached it; a troop taken off the
\* list arrived at the tower standing at its target, or fought another troop
MarchProgress ==
    \A k \in 1..Len(troops) :
       LET t == troops[k]
       IN  IF t.id \in TroopIds(troops')
           THEN \E n \in 1..Len(troops') :
                   /\ troops'[n].id = t.id
                   /\ Abs(t.target_x - troops'[n].x) < Abs(t.target_x - t.x)
                   /\ ~has_reached_target(troops'[n])
           ELSE \/ \E a \in last'.arrived :
                      /\ a.id = t.id
                      /\ a.tower \in 1..Len(towers)
                      /\ towers[a.tower].x = t.target_x
                \/ \E n \in 1..Len(last'.fights) :
                      t.id \in {last'.fights[n].id1, last'.fights[n].id2}

\* C33: every troop is eventually removed.  While the game is Playing and
\* frames keep coming, each call of _update_troops brings every troop that
\* stays on the list strictly closer to its target, a troop leaves the list
\* only by arriving at the tower at its target or by a fight with another
\* troop, and in the end the list is empty: no troop stays at its target
\* without being applied.
C33_TroopsEventuallyRemoved ==
    /\ [][MarchProgress]_vars
    /\ <>[](troops = << >> \/ game_state # PLAYING)

\* C33 witness: the list has been emptied; the last troop on it arrived at
\* the tower at its target and was applied to it.
C33_Witness ==
    /\ last.op = "update_troops"
    /\ last.arg.before # << >>
    /\ troops = << >>
    /\ \E a \in last.arrived : Len(last.attacks) > 0 /\ a.tower # 0
    /\ game_state = PLAYING

\* two troops of different owners met on the way and both left the list
MarchFight ==
    /\ last.op = "update_troops"
    /\ Len(last.fights) = 1
    /\ troops = << >>

(***************************************************************************)
(* A send arriving unit by unit: the dispatch queue turns a send of n      *)
(* units into n troops of one unit, each of which reaches the tower in a   *)
(* receive_attack(1, owner) of its own.                                    *)
(***************************************************************************)
RECURSIVE receive_unit_attacks(_, _, _)
\* tower.receive_attack(1, attacker_owner), n times in succession
receive_unit_attacks(tower, n, attacker_owner) ==
    IF n = 0 THEN tower
    ELSE CHOOSE result \in {receive_unit_attacks(t, n - 1, attacker_owner) :
                               t \in {receive_attack(tower, 1, attacker_owner).tower}} : TRUE

\* n troops of one unit reach the tower one after the other
UnitAttacks(n, attacker_owner) ==
    /\ last = NoStep
    /\ UNCHANGED inputs
    /\ UNCHANGED now
    /\ Commit([Self EXCEPT !.towers[1] = receive_unit_attacks(towers[1], n, attacker_owner)],
              "unit_attacks",
              [n |-> n, attacker_owner |-> attacker_owner, before |-> towers[1]])

NextSplit == \E n \in 1..MaxAttack, owner \in OwnerType : UnitAttacks(n, owner)

SpecSplit == InitTower /\ [][NextSplit]_vars

\* C34: splitting a send into single units does not change its effect on a
\* tower: n times receive_attack(1, attacker) in succession leaves the tower
\* with the same owner and troop count as one receive_attack(n, attacker).
C34_SplitSendSameEffect ==
    last.op = "unit_attacks"
    => LET once == receive_attack(last.arg.before, last.arg.n, last.arg.attacker_owner).tower
       IN  /\ towers[1].owner = once.owner
           /\ towers[1].troops = once.troops

\* C34 witness: unit attacks took a tower of another owner through an exact
\* tie (capture with no troops left) and reinforced it afterwards.
C34_Witness ==
    /\ last.op = "unit_attacks"
    /\ last.arg.before.owner # last.arg.attacker_owner
    /\ last.arg.before.troops > 1
    /\ last.arg.n > last.arg.before.troops + 1
    /\ towers[1].owner = last.arg.attacker_owner
    /\ towers[1].troops = last.arg.n - last.arg.before.troops

\* unit attacks on a tower that would pass the maximum: both ways the tower
\* ends at 50
SplitSendCapped ==
    /\ last.op = "unit_attacks"
    /\ last.arg.before.troops + last.arg.n > TOWER_MAX_TROOPS
    /\ last.arg.before.owner = last.arg.attacker_owner
    /\ towers[1].troops = TOWER_MAX_TROOPS

\* the towers of the game as placed: position by position
TowerPlaces(tw) == [i \in 1..Len(tw) |-> tw[i].x]

\* the number of Neutral towers
NeutralCount(tw) == Cardinality({i \in 1..Len(tw) : tw[i].owner = NEUTRAL})

\* C35: within one game instance the set of towers is fixed and no tower
\* ever becomes Neutral: a step of play neither adds nor removes a tower, a
\* tower of Player or Enemy stays with Player or Enemy, and the number of
\* Neutral towers never goes up.
C35_TowersFixedNoneNeutral ==
    [][ last'.op \in InPlaySteps
        => /\ TowerPlaces(towers') = TowerPlaces(towers)
           /\ \A i \in 1..Len(towers) :
                 towers[i].owner \in {PLAYER, ENEMY}
                 => towers'[i].owner \in {PLAYER, ENEMY}
           /\ NeutralCount(towers') <= NeutralCount(towers)
      ]_vars

\* C35 witness: in one tick an attack took a tower from Player or Enemy
\* through an exact tie, leaving it with no troops and with the attacker as
\* its owner, and the towers stand where they stood.
C35_Witness ==
    /\ last.op = "update"
    /\ \E n \in 1..Len(last.attacks) :
          /\ last.attacks[n].owner_before \in {PLAYER, ENEMY}
          /\ last.attacks[n].captured
          /\ last.attacks[n].troops_after = 0
          /\ towers[last.attacks[n].tower].owner \in {PLAYER, ENEMY}
    /\ TowerPlaces(towers) = SlotX

\* the towers whose selection flag is set
Flagged(tw) == {i \in 1..Len(tw) : tw[i].selected}

\* C36: selection invariant.  In every reachable state at most one tower has
\* its selection flag set, and the controller's selected tower is either none
\* or a tower of the current tower list whose flag is set; after
\* restart_game or the start of a new level no tower is selected.
C36_SelectionInvariant ==
    /\ Cardinality(Flagged(towers)) <= 1
    /\ \/ selected_tower = 0
       \/ selected_tower \in Flagged(towers)
    /\ Len(NewInstanceEvents(last.events)) > 0
       => (selected_tower = 0 /\ Flagged(towers) = {})

\* C36 witness: the selected tower was taken by the Enemy in a tick; it is
\* still the controller's selected tower and the only tower flagged.
C36_Witness ==
    /\ last.op = "update"
    /\ selected_tower # 0
    /\ towers[selected_tower].owner = ENEMY
    /\ Flagged(towers) = {selected_tower}
    /\ \E n \in 1..Len(last.attacks) :
          last.attacks[n].tower = selected_tower /\ last.attacks[n].captured

\* a click has cleared the selection: no tower is flagged any more
SelectionCleared ==
    /\ last.op = "click"
    /\ selected_tower = 0
    /\ Flagged(towers) = {}
    /\ Len(last.sends) = 1

\* the entries of a queue that belong to the given owner
EntriesOf(queue, owner) ==
    Cardinality({n \in 1..Len(queue) : queue[n].owner = owner})

\* the towers with the selection flag of tower s cleared
Unflagged(tw, s) == [tw EXCEPT ![s].selected = FALSE]

\* C37: player input never moves troops out of a tower the Player does not
\* own at the time of the click.  When the selected tower is no longer the
\* Player's, the next click sends nothing, adds no dispatch entry and only
\* clears the selection; every dispatch entry a click adds has owner Player,
\* and the click takes exactly as many troops from one Player-owned tower,
\* the selected one, as it adds entries.
C37_ClickSendsFromPlayerOnly ==
    [][ last'.op = "click"
        => LET added == Len(spawn_queue') - Len(spawn_queue)
           IN  /\ (selected_tower # 0 /\ towers[selected_tower].owner # PLAYER)
                  => /\ last'.sends = << >>
                     /\ spawn_queue' = spawn_queue
                     /\ troops' = troops
                     /\ selected_tower' = 0
                     /\ towers' = Unflagged(towers, selected_tower)
               /\ added >= 0
               /\ EntriesOf(spawn_queue', PLAYER) = EntriesOf(spawn_queue, PLAYER) + added
               /\ EntriesOf(spawn_queue', ENEMY) = EntriesOf(spawn_queue, ENEMY)
               /\ added > 0
                  => /\ selected_tower # 0
                     /\ towers[selected_tower].owner = PLAYER
                     /\ towers'[selected_tower].troops
                           = towers[selected_tower].troops - added
               /\ \A i \in 1..Len(towers) :
                     /\ towers'[i].owner = towers[i].owner
                     /\ towers'[i].troops # towers[i].troops
                        => (i = selected_tower /\ towers[i].owner = PLAYER)
      ]_vars

\* C37 witness: a click on another tower while the selected tower belonged
\* to the Enemy: nothing was sent, the queue holds no Player entry and the
\* selection is cleared.
C37_Witness ==
    /\ last.op = "click"
    /\ last.arg.selected # 0
    /\ last.arg.tower # 0
    /\ last.arg.tower # last.arg.selected
    /\ towers[last.arg.selected].owner = ENEMY
    /\ last.sends = << >>
    /\ EntriesOf(spawn_queue, PLAYER) = 0
    /\ selected_tower = 0
    /\ Flagged(towers) = {}

\* the attacks of the last step that captured a tower
Captures == SelectSeq(last.attacks, LAMBDA a : a.captured)

\* the tower_captured notifications of the last step for a capture
CaptureNotices(a) ==
    SelectSeq(last.events,
              LAMBDA e : e = [type |-> "tower_captured", tower |-> a.tower,
                              old_owner |-> a.owner_before, new_owner |-> a.attacker])

\* the captures of the last step of the same tower from the same old owner by
\* the same new owner
CapturesLike(a) ==
    SelectSeq(Captures, LAMBDA b : /\ b.tower = a.tower
                                   /\ b.owner_before = a.owner_before
                                   /\ b.attacker = a.attacker)

\* C38: each capture of a tower produces exactly one tower_captured
\* notification from the game controller to its observers, not zero and not
\* two, carrying the tower, its old owner and its new owner.
C38_OneNoticePerCapture ==
    /\ Len(EventsOfType(last.events, "tower_captured")) = Len(Captures)
    /\ \A n \in 1..Len(Captures) :
          Len(CaptureNotices(Captures[n])) = Len(CapturesLike(Captures[n]))

\* what the controller does: every capture is notified twice, once from the
\* owner_changed callback and once by _update_troops when receive_attack
\* returns
TwoNoticesPerCapture ==
    /\ Len(EventsOfType(last.events, "tower_captured")) = 2 * Len(Captures)
    /\ \A n \in 1..Len(Captures) :
          Len(CaptureNotices(Captures[n])) = 2 * Len(CapturesLike(Captures[n]))

\* a tick in which exactly one tower was captured
OneCaptureInTick == last.op = "update" /\ Len(Captures) = 1

\* the position in a step's win checks of the check that resolved the win
\* (0: the step resolved none)
WinCheck(l) ==
    IF \E n \in 1..Len(l.checks) : l.checks[n].state_after # l.checks[n].state_before
    THEN CHOOSE n \in 1..Len(l.checks) :
            l.checks[n].state_after # l.checks[n].state_before
    ELSE 0

\* the positions in a step's attacks of its captures, in order
CapturePositions(l) ==
    SelectIdx([n \in 1..Len(l.attacks) |-> l.attacks[n].captured], 1, << >>)

\* the step resolved the win in the check made from the owner_changed
\* callback of its k-th capture
WinFromCallback(l, k) ==
    /\ l.op = "update"
    /\ k = WinCheck(l)
    /\ k \in 1..Len(CapturePositions(l))

\* C39: once the win condition has been resolved (LevelComplete or
\* GameOver) the simulation is frozen until the next restart: no tower's
\* owner or troop count changes, no troop is created or removed, no dispatch
\* entry is added and the AI dispatches nothing; this includes the rest of
\* the tick in which the win was detected from the owner_changed callback,
\* in which no further attack reaches a tower and the AI sends nothing.
C39_FrozenAfterWin ==
    [][ /\ (game_state \in {LEVEL_COMPLETE, GAME_OVER} /\ last'.op \in InPlaySteps)
           => /\ towers' = towers
              /\ troops' = troops
              /\ spawn_queue' = spawn_queue
              /\ last'.sends = << >>
              /\ last'.attacks = << >>
        /\ \A k \in 1..Len(last'.checks) :
              WinFromCallback(last', k)
              => /\ CapturePositions(last')[k] = Len(last'.attacks)
                 /\ last'.sends = << >>
                 /\ EntriesOf(spawn_queue', ENEMY) <= EntriesOf(spawn_queue, ENEMY)
      ]_vars

\* a tick resolved the win from the callback of a capture and went on: a
\* later attack of the same tick reached a tower
AttackAfterWin ==
    \E k \in 1..Len(last.checks) :
       WinFromCallback(last, k) /\ CapturePositions(last)[k] < Len(last.attacks)

\* a tick resolved the win from the callback of a capture and the AI sent
\* troops afterwards in the same tick
AISendAfterWin ==
    \E k \in 1..Len(last.checks) : WinFromCallback(last, k) /\ last.sends # << >>

\* a tick resolved the win from the callback of a capture
WinResolvedInCallback == \E k \in 1..Len(last.checks) : WinFromCallback(last, k)

\* between ticks the resolved game is frozen: update, click and pause leave
\* towers, troops and queue alone while the state is LevelComplete or
\* GameOver
FrozenBetweenTicks ==
    [][ (game_state \in {LEVEL_COMPLETE, GAME_OVER} /\ last'.op \in InPlaySteps)
        => /\ towers' = towers
           /\ troops' = troops
           /\ spawn_queue' = spawn_queue
           /\ last'.sends = << >>
           /\ last'.attacks = << >>
      ]_vars

\* the step ran restart_game
Restarted(l) == \E n \in 1..Len(l.events) : l.events[n].type = "game_restarted"

\* C40: nothing leaks from one game instance into the next.  Immediately
\* after restart_game the troop list and the dispatch queue are empty, no
\* tower is selected, the winner is unset, the state is Playing and the win
\* latch is clear; and a troop that is on the list or arrives at a tower was
\* on the list before the step or was created in it, so nothing sent in the
\* previous instance can arrive at a tower of the new one.
C40_NothingLeaksAcrossRestart ==
    [][ /\ Restarted(last')
           => /\ troops' = << >>
              /\ spawn_queue' = << >>
              /\ selected_tower' = 0
              /\ Flagged(towers') = {}
              /\ winner' = NoWinner
              /\ game_state' = PLAYING
              /\ ~game_ended'
              /\ last'.arrived = {}
              /\ last'.attacks = << >>
        /\ \A k \in 1..Len(troops') :
              troops'[k].id \in TroopIds(troops) \/ troops'[k].id >= next_id
        /\ \A a \in last'.arrived :
              a.id \in TroopIds(troops) \/ a.id >= next_id
        /\ next_id' >= next_id
      ]_vars

\* C40 witness: restart_game has run in a game that had created troops and
\* had ended; the new instance is Playing with empty troop list and queue,
\* nothing selected, no winner and the latch clear.
C40_Witness ==
    /\ last.op \in {"restart_game", "handle_level_complete_input"}
    /\ Restarted(last)
    /\ next_id > 1
    /\ \E n \in 1..Len(last.events) :
          /\ last.events[n].type = "game_state_changed"
          /\ last.events[n].old_state \in {LEVEL_COMPLETE, GAME_OVER}
    /\ troops = << >> /\ spawn_queue = << >>
    /\ selected_tower = 0
    /\ winner = NoWinner
    /\ game_state = PLAYING
    /\ ~game_ended

====
